---------------------------- MODULE Spec2Model ----------------------------
(***************************************************************************)
(* A model of tilemaker's OSM store (src/src/osm_store.cpp), of its        *)
(* multipolygon assembler and geometry constructor, and of the ingestion   *)
(* driver (src/src/tilemaker.cpp).                                         *)
(*                                                                         *)
(* The module holds several specifications over one set of variables:      *)
(*   SpecStore  the three keyed stores under insert_back / clear           *)
(*   SpecFill   OSMStore::fillPoints called repeatedly on one sink         *)
(*   SpecMP     OSMStore::wayListMultiPolygon, one loop step per action    *)
(*   SpecAsm    OSMStore::correctMultiPolygonRelation on bounded bags      *)
(*   SpecWalk   the assembler on bags that exercise the ring walk          *)
(*   SpecBag    the assembler on bags that name a way more than once       *)
(*   Spec       the per-file block reading loop of main()                  *)
(*   SpecLoop   the same loop on one file, which may have no ways block    *)
(*   SpecCover  the same loop on one way, for the tiles the way covers     *)
(*   SpecParent the tile index of a lower zoom level                       *)
(*   SpecZoom   the tile maps of the zoom levels                           *)
(*   SpecEmit   the features of one tile                                   *)
(*   SpecGet    the three stores under insert_back, clear, at and count    *)
(*   SpecMain   main() from the command line to its return                 *)
(*   SpecArrays the sorted-array containers (src/src/indexed_array.cpp)    *)
(* A specification leaves the variables of the others at their initial     *)
(* values.                                                                 *)
(***************************************************************************)
EXTENDS Integers, Sequences, FiniteSets, TLC

VARIABLES
    nodes,          \* NodeStore::mLatpLons    : NodeID -> LatpLon
    ways,           \* WayStore::mNodeLists    : WayID  -> NodeVec
    relations,      \* RelationStore::mWayLists: WayID  -> WayVec
    hist,           \* SpecStore: the last store operation and the store before it
    sink,           \* SpecFill / SpecMP: the point range fillPoints appends to
    call,           \* SpecFill / SpecMP: the last fillPoints call on the sink / the
                    \* current ring (its contents before the call, the arguments)
    mpc,            \* SpecMP: the locals of wayListMultiPolygon
    asm,            \* SpecAsm: the arguments of correctMultiPolygonRelation and,
                    \* once it has run, what it returned and wrote to cerr
    inputFiles,     \* Spec: the input files, each a sequence of primitive blocks
    drv,            \* Spec: the locals of main's read loop
    wayRelations,   \* Spec: WayID -> the relations that oblige the way to output
    relationOutputObjects, \* Spec: relation ID -> its OutputObjects
    tileIndex,      \* Spec: tile index at the base zoom -> its OutputObjects
    log             \* Spec: what the read loop did, in order

drvVars == <<inputFiles, drv, wayRelations, relationOutputObjects, tileIndex, log>>

vars == <<nodes, ways, relations, hist, sink, call, mpc, asm, drvVars>>

(***************************************************************************)
(* Types of tilemaker.cpp                                                  *)
(***************************************************************************)
\* typedef uint32_t WayID: the number of values of the type.  TLC's integers
\* are 32-bit, so the width is scaled down; the conversions and the three
\* sentinels are computed from it as the code computes them from 2^32.
WayIDModulus == 256

\* static_cast<WayID>(x): conversion of an integer to the unsigned 32-bit type
ToWayID(x) == x % WayIDModulus

\* conversion of a WayID to int (the parameter type of WayStore::insert_back)
ToInt(w) == IF w >= WayIDModulus \div 2 THEN w - WayIDModulus ELSE w

\* a real way ID above the range of int, which insert_back(int i, ...) wraps
HighWayID == WayIDModulus \div 2 + 1

PSEUDO_WAY_OUTER_MARK == ToWayID(-1)
PSEUDO_WAY_INNER_MARK == ToWayID(-1) - 1
PSEUDO_WAY_REVERSE_MARK == ToWayID(-1) - 2

\* the exception std::unordered_map::at raises, as a value
NotFound == "NotFound"

(***************************************************************************)
(* The three stores.  A store is a function from the IDs present to the    *)
(* values; std::unordered_map::emplace does nothing when the key exists.   *)
(***************************************************************************)
EmptyStore == <<>>

\* a store whose insert overwrites an existing entry (operator[] instead of emplace)
EmplaceOverwrite(m, k, v) ==
    [x \in DOMAIN m \cup {k} |-> IF x = k THEN v ELSE m[x]]

Emplace(m, k, v) ==
    IF k \in DOMAIN m THEN m
    ELSE [x \in DOMAIN m \cup {k} |-> IF x = k THEN v ELSE m[x]]

\* a lookup that hands out an empty value for an absent key instead of raising
MapAt_orEmpty(m, k) == IF k \in DOMAIN m THEN m[k] ELSE <<>>

MapAt(m, k) == IF k \in DOMAIN m THEN m[k] ELSE NotFound

MapCount(m, k) == IF k \in DOMAIN m THEN 1 ELSE 0

NodeStore_at(m, i) == MapAt(m, i)
NodeStore_count(m, i) == MapCount(m, i)
NodeStore_insert_back(m, i, coord) == Emplace(m, i, coord)
NodeStore_clear(m) == EmptyStore

WayStore_at(m, i) == MapAt(m, i)
WayStore_count(m, i) == MapCount(m, i)
\* an insert that keeps the int parameter as the key, without converting it back
WayStore_insert_back_signed(m, i, nodeVec) == Emplace(m, ToInt(i), nodeVec)

\* the WayID argument is converted to the int parameter, and the int to the key type
WayStore_insert_back(m, i, nodeVec) == Emplace(m, ToWayID(ToInt(i)), nodeVec)
WayStore_clear(m) == EmptyStore

RelationStore_at(m, i) == MapAt(m, i)
RelationStore_count(m, i) == MapCount(m, i)
RelationStore_insert_back(m, i, wayVec) == Emplace(m, i, wayVec)
RelationStore_clear(m) == EmptyStore

(***************************************************************************)
(* Points.  fillPoints makes Point(ll.lon/1e7, ll.latp/1e7); the model     *)
(* keeps both ordinates in the store's fixed-point unit (1e-7 degree), so  *)
(* x is the lon field and y the latp field, and the division, which is     *)
(* injective on int, is not carried out.                                   *)
(***************************************************************************)
\* the ordinate of the dummy point fillPoints starts from (123456789.0),
\* outside the range of every lon/1e7 and latp/1e7
DummyOrdinate == 123456789

DummyPoint == [x |-> DummyOrdinate, y |-> DummyOrdinate]

MakePoint(ll) == [x |-> ll.lon, y |-> ll.latp]

\* geom::equals on two points
PointEquals(p, q) == p.x = q.x /\ p.y = q.y

Reverse(s) == [i \in 1..Len(s) |-> s[Len(s) + 1 - i]]

\* while (frontIt < backIt) iter_swap(frontIt++, backIt--), on 1-based positions
ReverseRange(s, frontIt, backIt) ==
    [i \in 1..Len(s) |-> IF i >= frontIt /\ i <= backIt THEN s[frontIt + backIt - i] ELSE s[i]]

\* the for loop of fillPoints from position i on: the points it pushes.
\* lastP is the previous node's point, pushed or not.
RECURSIVE FillLoop(_, _, _)
FillLoop(nodeList, i, lastP) ==
    IF i > Len(nodeList) THEN <<>>
    ELSE LET p == MakePoint(NodeStore_at(nodes, nodeList[i]))
         IN  (IF ~PointEquals(p, lastP) THEN <<p>> ELSE <<>>) \o FillLoop(nodeList, i + 1, p)

\* fillPoints with the reversal applied to the whole sink instead of the pushed tail
fillPoints_reverseAll(points, nodeList, reverse) ==
    LET lastP == IF points = <<>> THEN DummyPoint ELSE points[Len(points)]
        all == points \o FillLoop(nodeList, 1, lastP)
    IN  IF reverse THEN ReverseRange(all, 1, Len(all)) ELSE all

\* fillPoints that ignores the reverse flag
fillPoints_noReverse(points, nodeList, reverse) ==
    LET lastP == IF points = <<>> THEN DummyPoint ELSE points[Len(points)]
    IN  points \o FillLoop(nodeList, 1, lastP)

fillPoints(points, nodeList, reverse) ==
    LET lastP == IF points = <<>> THEN DummyPoint ELSE points[Len(points)]
        pushed == FillLoop(nodeList, 1, lastP)
        nodeCnt == Len(pushed)
        all == points \o pushed
        frontIt == Len(all) - nodeCnt + 1
        backIt == Len(all)
    IN  IF reverse THEN ReverseRange(all, frontIt, backIt) ELSE all

(***************************************************************************)
(* boost::geometry::correct, as OSMStore calls it: a ring of more than two *)
(* points is closed by appending its first point, and a ring whose signed  *)
(* area has the wrong sign is reversed (exterior rings are clockwise,      *)
(* interior rings counter-clockwise).                                      *)
(***************************************************************************)
\* twice the signed area of a ring, positive for a clockwise ring; a ring of
\* fewer than four points has area 0
Area2(r) ==
    LET F[k \in 0..Len(r)] ==
            IF k <= 1 THEN 0
            ELSE F[k - 1] + (r[k - 1].x + r[k].x) * (r[k - 1].y - r[k].y)
    IN  IF Len(r) < 4 THEN 0 ELSE F[Len(r)]

CorrectRing(r, exterior) ==
    LET closed == IF Len(r) > 2 /\ ~PointEquals(r[1], r[Len(r)]) THEN Append(r, r[1]) ELSE r
        a == Area2(closed)
    IN  IF (exterior /\ a < 0) \/ (~exterior /\ a > 0) THEN Reverse(closed) ELSE closed

CorrectPolygon(poly) ==
    [outer |-> CorrectRing(poly.outer, TRUE),
     inners |-> [i \in 1..Len(poly.inners) |-> CorrectRing(poly.inners[i], FALSE)]]

CorrectMultiPolygon(mp) == [i \in 1..Len(mp) |-> CorrectPolygon(mp[i])]

(***************************************************************************)
(* OSMStore::wayListMultiPolygon.  st holds its locals: the way list, the  *)
(* position it (1-based; Len + 1 is end), isOuter, the ring being filled   *)
(* and mp.  Each operator below is one step of its loops.                  *)
(***************************************************************************)
IsRingMark(w) == w = PSEUDO_WAY_OUTER_MARK \/ w = PSEUDO_WAY_INNER_MARK

MPStart(wayList) ==
    [wayList |-> wayList, it |-> 1, isOuter |-> TRUE, ring |-> <<>>, mp |-> <<>>,
     pc |-> IF wayList = <<>> THEN "done" ELSE "ringStart"]

\* the head of the do loop, which reads a mark as the start of an outer ring
\* whatever the mark is
MPRingStart_anyMarkOuter(st) ==
    [st EXCEPT !.ring = <<>>, !.pc = "fill", !.isOuter = TRUE,
               !.it = IF st.isOuter THEN st.it ELSE st.it + 1]

\* Ring ring; isOuter = isOuter || *it++ == PSEUDO_WAY_OUTER_MARK;
\* (the right operand, and with it the increment, is skipped when isOuter holds)
MPRingStart(st) ==
    IF st.isOuter
    THEN [st EXCEPT !.ring = <<>>, !.pc = "fill"]
    ELSE [st EXCEPT !.ring = <<>>, !.pc = "fill",
                    !.isOuter = (st.wayList[st.it] = PSEUDO_WAY_OUTER_MARK),
                    !.it = st.it + 1]

MPAtRingEnd(st) ==
    IF st.it > Len(st.wayList) THEN TRUE ELSE IsRingMark(st.wayList[st.it])

\* one iteration of the for loop: the arguments of its fillPoints call
MPFillReverse(st) == st.wayList[st.it] = PSEUDO_WAY_REVERSE_MARK
MPFillPos(st) == IF MPFillReverse(st) THEN st.it + 1 ELSE st.it
MPFillWayID(st) == st.wayList[MPFillPos(st)]

MPFillWay(st) ==
    [st EXCEPT !.ring = fillPoints(st.ring, WayStore_at(ways, MPFillWayID(st)),
                                   MPFillReverse(st)),
               !.it = MPFillPos(st) + 1]

\* after the for loop: the ring becomes a polygon's outer or the last polygon's
\* next inner; at the end of the list the multipolygon is corrected
MPRingEnd(st) ==
    LET placed ==
            IF st.isOuter
            THEN Append(st.mp, [outer |-> st.ring, inners |-> <<>>])
            ELSE [st.mp EXCEPT ![Len(st.mp)].inners = Append(@, st.ring)]
        atEnd == st.it > Len(st.wayList)
    IN  [st EXCEPT !.isOuter = FALSE,
                   !.mp = IF atEnd THEN CorrectMultiPolygon(placed) ELSE placed,
                   !.pc = IF atEnd THEN "done" ELSE "ringStart"]

MPStep(st) ==
    CASE st.pc = "ringStart" -> MPRingStart(st)
      [] st.pc = "fill" /\ ~MPAtRingEnd(st) -> MPFillWay(st)
      [] st.pc = "fill" /\ MPAtRingEnd(st) -> MPRingEnd(st)
      [] OTHER -> st

RECURSIVE MPRun(_)
MPRun(st) == IF st.pc = "done" THEN st ELSE MPRun(MPStep(st))

wayListMultiPolygon(wayList) == MPRun(MPStart(wayList)).mp

(***************************************************************************)
(* boost::geometry::is_valid and boost::geometry::within on rings, in      *)
(* integer arithmetic.  A ring is valid when it is closed, has at least    *)
(* three different corners, no spike, no two edges that meet outside a     *)
(* shared corner, and a positive (clockwise) area; consecutive duplicate   *)
(* points are allowed.  A ring is within another when each of its corners  *)
(* is inside or on the other and no edge of it crosses an edge of the      *)
(* other.                                                                  *)
(***************************************************************************)
Cross(o, a, b) == (a.x - o.x) * (b.y - o.y) - (a.y - o.y) * (b.x - o.x)

Dot(o, a, b) == (a.x - o.x) * (b.x - o.x) + (a.y - o.y) * (b.y - o.y)

Sign(n) == IF n > 0 THEN 1 ELSE IF n < 0 THEN -1 ELSE 0

\* p lies on the closed segment a-b
OnSegment(a, b, p) == Cross(a, b, p) = 0 /\ Dot(p, a, b) <= 0

\* the closed segments a-b and c-d have a point in common
SegmentsMeet(a, b, c, d) ==
    \/ /\ Sign(Cross(a, b, c)) * Sign(Cross(a, b, d)) < 0
       /\ Sign(Cross(c, d, a)) * Sign(Cross(c, d, b)) < 0
    \/ OnSegment(a, b, c)
    \/ OnSegment(a, b, d)
    \/ OnSegment(c, d, a)
    \/ OnSegment(c, d, b)

\* the segments cross at a point interior to both
SegmentsCross(a, b, c, d) ==
    /\ Sign(Cross(a, b, c)) * Sign(Cross(a, b, d)) < 0
    /\ Sign(Cross(c, d, a)) * Sign(Cross(c, d, b)) < 0

\* a ring without its consecutive duplicate points
Distinct(r) ==
    LET F[k \in 0..Len(r)] ==
            IF k = 0 THEN <<>>
            ELSE IF k > 1 /\ PointEquals(r[k], r[k - 1]) THEN F[k - 1]
            ELSE Append(F[k - 1], r[k])
    IN  F[Len(r)]

is_valid_ring(r) ==
    LET d == Distinct(r)
        n == Len(d) - 1
        corner(i) == d[((i - 1) % n) + 1]
    IN  /\ Len(r) >= 4
        /\ Len(d) >= 4
        /\ PointEquals(r[1], r[Len(r)])
        /\ \A i \in 1..n :
               ~(/\ Cross(corner(i), corner(i + 1), corner(i + 2)) = 0
                 /\ Dot(corner(i + 1), corner(i), corner(i + 2)) > 0)
        /\ \A i \in 1..n, j \in 1..n :
               (i < j /\ j # i + 1 /\ ~(i = 1 /\ j = n)) =>
                   ~SegmentsMeet(corner(i), corner(i + 1), corner(j), corner(j + 1))
        /\ Area2(r) > 0

\* p is inside the ring or on its boundary (crossing number of the ray to +x)
PointInRing(p, r) ==
    LET n == Len(r) - 1
        crosses(i) ==
            LET a == r[i]
                b == r[i + 1]
            IN  /\ (a.y > p.y) # (b.y > p.y)
                /\ IF b.y > a.y
                   THEN (p.x - a.x) * (b.y - a.y) < (p.y - a.y) * (b.x - a.x)
                   ELSE (p.x - a.x) * (b.y - a.y) > (p.y - a.y) * (b.x - a.x)
    IN  \/ \E i \in 1..n : OnSegment(r[i], r[i + 1], p)
        \/ Cardinality({i \in 1..n : crosses(i)}) % 2 = 1

within(r1, r2) ==
    /\ Len(r1) >= 2
    /\ Len(r2) >= 2
    /\ \A i \in 1..Len(r1) : PointInRing(r1[i], r2)
    /\ \A i \in 1..(Len(r1) - 1), j \in 1..(Len(r2) - 1) :
           ~SegmentsCross(r1[i], r1[i + 1], r2[j], r2[j + 1])

\* is_valid on the multipolygon of the self-check: every ring valid for its
\* role, every inner within its outer, no two polygons overlapping
is_valid_multipolygon(mp) ==
    /\ \A k \in 1..Len(mp) :
           /\ is_valid_ring(mp[k].outer)
           /\ \A h \in 1..Len(mp[k].inners) :
                  /\ is_valid_ring(Reverse(mp[k].inners[h]))
                  /\ within(mp[k].inners[h], mp[k].outer)
    /\ \A k \in 1..Len(mp), l \in 1..Len(mp) :
           k < l =>
               /\ ~within(mp[k].outer, mp[l].outer)
               /\ ~within(mp[l].outer, mp[k].outer)
               /\ \A i \in 1..(Len(mp[k].outer) - 1), j \in 1..(Len(mp[l].outer) - 1) :
                      ~SegmentsCross(mp[k].outer[i], mp[k].outer[i + 1],
                                     mp[l].outer[j], mp[l].outer[j + 1])

(***************************************************************************)
(* OSMStore::correctMultiPolygonRelation.  Vectors are 1-based; the index  *)
(* 0 stands for SIZE_MAX.  What the function writes to cerr is kept as a   *)
(* sequence of warnings in the order written.                              *)
(***************************************************************************)
\* squared distance of two LatpLon in their fixed-point unit
sqDist(a, b) == (a.latp - b.latp) * (a.latp - b.latp) + (a.lon - b.lon) * (a.lon - b.lon)

\* a value-initialised LatpLon (the endpoints of a way that is skipped)
ZeroLatpLon == [latp |-> 0, lon |-> 0]

\* matched[i] after the endpoint loop: the way is unavailable or empty
AsmSkipped(wayVec, i) ==
    IF WayStore_count(ways, wayVec[i]) = 0 THEN TRUE
    ELSE WayStore_at(ways, wayVec[i]) = <<>>

\* an endpoint loop that skips the unavailable ways without a warning
AsmUnavailableWarnings_none(wayVec) == <<>>

AsmUnavailableWarnings(wayVec) ==
    LET F[k \in 0..Len(wayVec)] ==
            IF k = 0 THEN <<>>
            ELSE IF WayStore_count(ways, wayVec[k]) = 0
            THEN Append(F[k - 1], [kind |-> "unavailable", way |-> wayVec[k]])
            ELSE F[k - 1]
    IN  F[Len(wayVec)]

AsmEndCoordsVec(wayVec) ==
    [i \in 1..Len(wayVec) |->
        IF AsmSkipped(wayVec, i) THEN [first |-> ZeroLatpLon, second |-> ZeroLatpLon]
        ELSE LET nodeList == WayStore_at(ways, wayVec[i])
             IN  [first |-> NodeStore_at(nodes, nodeList[1]),
                  second |-> NodeStore_at(nodes, nodeList[Len(nodeList)])]]

\* a scan that takes a way backwards when its first endpoint is the near one
AsmScan_reverseFirst(wayVec, matched, endCoordsVec, currentCoord, startCoord, startIdx, reverse) ==
    LET F[c \in 0..(2 * Len(wayVec))] ==
            IF c = 0
            THEN [minSqd |-> sqDist(currentCoord, startCoord), nextIdx |-> startIdx,
                  reverse |-> reverse, warnings |-> <<>>]
            ELSE LET i == (c + 1) \div 2
                     isFirst == c % 2 = 1
                     targetCoord == IF isFirst THEN endCoordsVec[i].first
                                    ELSE endCoordsVec[i].second
                     sqd == sqDist(currentCoord, targetCoord)
                     prev == F[c - 1]
                 IN  IF matched[i] THEN prev
                     ELSE IF sqd < prev.minSqd
                     THEN [prev EXCEPT !.minSqd = sqd, !.nextIdx = i, !.reverse = isFirst]
                     ELSE IF sqd = 0
                     THEN [prev EXCEPT !.warnings =
                              Append(@, [kind |-> "shareEndpoint", way |-> wayVec[i],
                                         first |-> isFirst])]
                     ELSE prev
    IN  F[2 * Len(wayVec)]

\* a scan that takes the last of the nearest endpoints instead of the first
AsmScan_lastNearest(wayVec, matched, endCoordsVec, currentCoord, startCoord, startIdx, reverse) ==
    LET F[c \in 0..(2 * Len(wayVec))] ==
            IF c = 0
            THEN [minSqd |-> sqDist(currentCoord, startCoord), nextIdx |-> startIdx,
                  reverse |-> reverse, warnings |-> <<>>]
            ELSE LET i == (c + 1) \div 2
                     isFirst == c % 2 = 1
                     targetCoord == IF isFirst THEN endCoordsVec[i].first
                                    ELSE endCoordsVec[i].second
                     sqd == sqDist(currentCoord, targetCoord)
                     prev == F[c - 1]
                 IN  IF matched[i] THEN prev
                     ELSE IF sqd <= prev.minSqd
                     THEN [prev EXCEPT !.minSqd = sqd, !.nextIdx = i, !.reverse = ~isFirst]
                     ELSE IF sqd = 0
                     THEN [prev EXCEPT !.warnings =
                              Append(@, [kind |-> "shareEndpoint", way |-> wayVec[i],
                                         first |-> isFirst])]
                     ELSE prev
    IN  F[2 * Len(wayVec)]

\* the scan for the next way: candidate c = 2i-1 is the first endpoint of way
\* i, c = 2i its second endpoint
AsmScan(wayVec, matched, endCoordsVec, currentCoord, startCoord, startIdx, reverse) ==
    LET F[c \in 0..(2 * Len(wayVec))] ==
            IF c = 0
            THEN [minSqd |-> sqDist(currentCoord, startCoord), nextIdx |-> startIdx,
                  reverse |-> reverse, warnings |-> <<>>]
            ELSE LET i == (c + 1) \div 2
                     isFirst == c % 2 = 1
                     targetCoord == IF isFirst THEN endCoordsVec[i].first
                                    ELSE endCoordsVec[i].second
                     sqd == sqDist(currentCoord, targetCoord)
                     prev == F[c - 1]
                 IN  IF matched[i] THEN prev
                     ELSE IF sqd < prev.minSqd
                     THEN [prev EXCEPT !.minSqd = sqd, !.nextIdx = i, !.reverse = ~isFirst]
                     ELSE IF sqd = 0
                     THEN [prev EXCEPT !.warnings =
                              Append(@, [kind |-> "shareEndpoint", way |-> wayVec[i],
                                         first |-> isFirst])]
                     ELSE prev
    IN  F[2 * Len(wayVec)]

\* a walk that never warns about a way that is not connected
AsmNotConnected_never(wayVec, scan) == <<>>

\* the warning behind the search: the nearest way is used though it is not
\* connected
AsmNotConnected(wayVec, scan) ==
    IF scan.minSqd > 0
    THEN <<[kind |-> "notConnected", way |-> wayVec[scan.nextIdx], sqd |-> scan.minSqd]>>
    ELSE <<>>

\* the locals of the do loop at the end of one round: scan is what the
\* search for the next way found.  steps is a history of the rounds: the way
\* the round appended and its direction, matched and the two coordinates the
\* search started from, and what the search found
AsmWalkRound(wayVec, w, matched, currentWayVec, currentCoord, startCoord, scan) ==
    [matched |-> matched,
     currentWayVec |-> currentWayVec,
     nextIdx |-> scan.nextIdx,
     reverse |-> scan.reverse,
     warnings |-> w.warnings \o scan.warnings \o AsmNotConnected(wayVec, scan),
     steps |-> Append(w.steps,
         [idx |-> w.nextIdx, reversed |-> w.reverse,
          matched |-> [i \in 1..Len(wayVec) |-> matched[i]],
          currentCoord |-> currentCoord, startCoord |-> startCoord,
          minSqd |-> scan.minSqd, nextIdx |-> scan.nextIdx,
          shared |-> scan.warnings,
          notConnected |-> AsmNotConnected(wayVec, scan)])]

\* a round that writes REVERSE_MARK in front of every way
AsmWalkSearch_markAll(wayVec, endCoordsVec, startIdx, w, matched, currentCoord) ==
    AsmWalkRound(wayVec, w, matched,
        w.currentWayVec
            \o <<PSEUDO_WAY_REVERSE_MARK>>
            \o <<wayVec[w.nextIdx]>>,
        currentCoord, endCoordsVec[startIdx].first,
        AsmScan(wayVec, matched, endCoordsVec, currentCoord,
                endCoordsVec[startIdx].first, startIdx, w.reverse))

\* a round that never writes REVERSE_MARK
AsmWalkSearch_noMark(wayVec, endCoordsVec, startIdx, w, matched, currentCoord) ==
    AsmWalkRound(wayVec, w, matched,
        w.currentWayVec
            \o <<wayVec[w.nextIdx]>>,
        currentCoord, endCoordsVec[startIdx].first,
        AsmScan(wayVec, matched, endCoordsVec, currentCoord,
                endCoordsVec[startIdx].first, startIdx, w.reverse))

\* the search of one round, from the coordinate the ring has reached
AsmWalkSearch(wayVec, endCoordsVec, startIdx, w, matched, currentCoord) ==
    AsmWalkRound(wayVec, w, matched,
        w.currentWayVec
            \o (IF w.reverse THEN <<PSEUDO_WAY_REVERSE_MARK>> ELSE <<>>)
            \o <<wayVec[w.nextIdx]>>,
        currentCoord, endCoordsVec[startIdx].first,
        AsmScan(wayVec, matched, endCoordsVec, currentCoord,
                endCoordsVec[startIdx].first, startIdx, w.reverse))

\* one round of the do loop, from its locals w
AsmWalkStep(wayVec, endCoordsVec, startIdx, w, matched) ==
    AsmWalkSearch(wayVec, endCoordsVec, startIdx, w, matched,
        IF w.reverse THEN endCoordsVec[w.nextIdx].first
        ELSE endCoordsVec[w.nextIdx].second)

\* the do loop that collects the ways of one ring, from its locals w
RECURSIVE AsmWalk(_, _, _, _)
AsmWalkWhile(wayVec, endCoordsVec, startIdx, next) ==
    IF next.nextIdx # startIdx
    THEN AsmWalk(wayVec, endCoordsVec, startIdx, next)
    ELSE next

AsmWalk(wayVec, endCoordsVec, startIdx, w) ==
    AsmWalkWhile(wayVec, endCoordsVec, startIdx,
        AsmWalkStep(wayVec, endCoordsVec, startIdx, w,
                    [w.matched EXCEPT ![w.nextIdx] = TRUE]))

\* Ring currentRing filled from the ways of one ring
AsmRingPoints(currentWayVec) ==
    LET G[k \in 0..Len(currentWayVec)] ==
            IF k = 0 THEN <<>>
            ELSE IF currentWayVec[k] = PSEUDO_WAY_REVERSE_MARK THEN G[k - 1]
            ELSE fillPoints(G[k - 1], WayStore_at(ways, currentWayVec[k]),
                            k > 1 /\ currentWayVec[k - 1] = PSEUDO_WAY_REVERSE_MARK)
    IN  G[Len(currentWayVec)]

\* a loop body that keeps the ring whether it is valid or not
AsmPlaceRing_keepInvalid(acc, isOuter, w, currentRing, valid) ==
    [matched |-> w.matched,
     wayVecVec |-> Append(acc.wayVecVec, w.currentWayVec),
     ringVec |-> Append(acc.ringVec, currentRing),
     warnings |-> acc.warnings \o w.warnings
         \o (IF valid THEN <<>>
             ELSE <<[kind |-> "invalidRing", outer |-> isOuter,
                     ways |-> w.currentWayVec]>>),
     walks |-> Append(acc.walks,
         [ways |-> w.currentWayVec, steps |-> w.steps, valid |-> valid])]

\* a loop body that forgets which ways the ring has used
AsmPlaceRing_forgetMatched(acc, isOuter, w, currentRing, valid) ==
    [matched |-> acc.matched,
     wayVecVec |-> IF valid THEN Append(acc.wayVecVec, w.currentWayVec)
                   ELSE acc.wayVecVec,
     ringVec |-> IF valid THEN Append(acc.ringVec, currentRing) ELSE acc.ringVec,
     warnings |-> acc.warnings \o w.warnings
         \o (IF valid THEN <<>>
             ELSE <<[kind |-> "invalidRing", outer |-> isOuter,
                     ways |-> w.currentWayVec]>>),
     walks |-> Append(acc.walks,
         [ways |-> w.currentWayVec, steps |-> w.steps, valid |-> valid])]

\* the end of the loop body: the ring is kept if it is valid
AsmPlaceRing(acc, isOuter, w, currentRing, valid) ==
    [matched |-> w.matched,
     wayVecVec |-> IF valid THEN Append(acc.wayVecVec, w.currentWayVec)
                   ELSE acc.wayVecVec,
     ringVec |-> IF valid THEN Append(acc.ringVec, currentRing) ELSE acc.ringVec,
     warnings |-> acc.warnings \o w.warnings
         \o (IF valid THEN <<>>
             ELSE <<[kind |-> "invalidRing", outer |-> isOuter,
                     ways |-> w.currentWayVec]>>),
     walks |-> Append(acc.walks,
         [ways |-> w.currentWayVec, steps |-> w.steps, valid |-> valid])]

AsmCheckRing(acc, isOuter, w, currentRing) ==
    AsmPlaceRing(acc, isOuter, w, currentRing, is_valid_ring(currentRing))

\* the ring of the ways the do loop collected
AsmMakeRing(acc, isOuter, w) ==
    AsmCheckRing(acc, isOuter, w, CorrectRing(AsmRingPoints(w.currentWayVec), TRUE))

\* the loop over startIdx from startIdx on; acc holds matched, the rings kept
\* so far and the warnings
RECURSIVE AsmRingsFrom(_, _, _, _, _)
AsmRingsFrom(wayVec, isOuter, endCoordsVec, startIdx, acc) ==
    IF startIdx > Len(wayVec) THEN acc
    ELSE IF acc.matched[startIdx]
    THEN AsmRingsFrom(wayVec, isOuter, endCoordsVec, startIdx + 1, acc)
    ELSE AsmRingsFrom(wayVec, isOuter, endCoordsVec, startIdx + 1,
             AsmMakeRing(acc, isOuter,
                 AsmWalk(wayVec, endCoordsVec, startIdx,
                         [matched |-> acc.matched, currentWayVec |-> <<>>,
                          nextIdx |-> startIdx, reverse |-> FALSE,
                          warnings |-> <<>>, steps |-> <<>>])))

\* one pass of the loop over {true, false}: the rings of one bag
AsmRings(wayVec, isOuter) ==
    AsmRingsFrom(wayVec, isOuter, AsmEndCoordsVec(wayVec), 1,
        [matched |-> [i \in 1..Len(wayVec) |-> AsmSkipped(wayVec, i)],
         wayVecVec |-> <<>>,
         ringVec |-> <<>>,
         warnings |-> AsmUnavailableWarnings(wayVec),
         walks |-> <<>>])

\* the parent search that keeps the first outer ring found to hold the inner
AsmParent_first(innerRing, outerRingVec) ==
    LET P[j \in 0..Len(outerRingVec)] ==
            IF j = 0 THEN 0
            ELSE IF within(innerRing, outerRingVec[j]) /\ P[j - 1] = 0 THEN j
            ELSE P[j - 1]
    IN  P[Len(outerRingVec)]

\* the search for the outer ring an inner ring belongs to (0: none)
AsmParent(innerRing, outerRingVec) ==
    LET P[j \in 0..Len(outerRingVec)] ==
            IF j = 0 THEN 0
            ELSE IF within(innerRing, outerRingVec[j])
            THEN IF P[j - 1] = 0 THEN j
                 ELSE IF within(outerRingVec[j], outerRingVec[P[j - 1]]) THEN j
                 ELSE P[j - 1]
            ELSE P[j - 1]
    IN  P[Len(outerRingVec)]

\* innerWayVecForOuter[j] after the loop over the inner rings
AsmInnerWayVecForOuter(j, innerWayVecVec, parents) ==
    LET F[k \in 0..Len(innerWayVecVec)] ==
            IF k = 0 THEN <<>>
            ELSE IF parents[k] = j
            THEN F[k - 1] \o <<PSEUDO_WAY_INNER_MARK>> \o innerWayVecVec[k]
            ELSE F[k - 1]
    IN  F[Len(innerWayVecVec)]

\* the flattening that writes OUTER_MARK in front of every outer ring
AsmFlatten_markFirst(outerWayVecVec, innerWayVecVec, parents) ==
    LET R[j \in 0..Len(outerWayVecVec)] ==
            IF j = 0 THEN <<>>
            ELSE R[j - 1] \o <<PSEUDO_WAY_OUTER_MARK>> \o outerWayVecVec[j]
                     \o AsmInnerWayVecForOuter(j, innerWayVecVec, parents)
    IN  R[Len(outerWayVecVec)]

\* a flattening that writes the outer rings last to first
AsmFlatten_backwards(outerWayVecVec, innerWayVecVec, parents) ==
    LET n == Len(outerWayVecVec)
        R[j \in 0..n] ==
            IF j = 0 THEN <<>>
            ELSE R[j - 1] \o (IF j > 1 THEN <<PSEUDO_WAY_OUTER_MARK>> ELSE <<>>)
                     \o outerWayVecVec[n + 1 - j]
                     \o AsmInnerWayVecForOuter(n + 1 - j, innerWayVecVec, parents)
    IN  R[n]

\* WayVec result: the outer rings joined by PSEUDO_WAY_OUTER_MARK
AsmFlatten(outerWayVecVec, innerWayVecVec, parents) ==
    LET R[j \in 0..Len(outerWayVecVec)] ==
            IF j = 0 THEN <<>>
            ELSE R[j - 1] \o (IF j > 1 THEN <<PSEUDO_WAY_OUTER_MARK>> ELSE <<>>)
                     \o outerWayVecVec[j]
                     \o AsmInnerWayVecForOuter(j, innerWayVecVec, parents)
    IN  R[Len(outerWayVecVec)]

AsmOrphanWarnings(innerWayVecVec, parents) ==
    LET F[k \in 0..Len(innerWayVecVec)] ==
            IF k = 0 THEN <<>>
            ELSE IF parents[k] = 0
            THEN Append(F[k - 1], [kind |-> "innerNotInOuter", ways |-> innerWayVecVec[k]])
            ELSE F[k - 1]
    IN  F[Len(innerWayVecVec)]

\* the validity check of the result, and what the function leaves behind: its
\* result, with the vectors it built on the way
AsmReturn(o, i, parents, result) ==
    [result |-> result,
     outerWayVecVec |-> o.wayVecVec,
     innerWayVecVec |-> i.wayVecVec,
     outerRingVec |-> o.ringVec,
     innerRingVec |-> i.ringVec,
     parents |-> parents,
     outerWalks |-> o.walks,
     innerWalks |-> i.walks,
     warnings |-> o.warnings \o i.warnings
         \o AsmOrphanWarnings(i.wayVecVec, parents)
         \o (IF is_valid_multipolygon(wayListMultiPolygon(result)) THEN <<>>
             ELSE <<[kind |-> "invalidMultipolygon"]>>)]

AsmEncode(o, i, parents) ==
    AsmReturn(o, i, parents, AsmFlatten(o.wayVecVec, i.wayVecVec, parents))

\* o and i are the rings of the outer and of the inner ways
AsmAttach(o, i) ==
    AsmEncode(o, i, [k \in 1..Len(i.ringVec) |-> AsmParent(i.ringVec[k], o.ringVec)])

correctMultiPolygonRelation(outerWayVec, innerWayVec) ==
    AsmAttach(AsmRings(outerWayVec, TRUE), AsmRings(innerWayVec, FALSE))

(***************************************************************************)
(* main (tilemaker.cpp): reading the input files.  A file is the sequence  *)
(* of its primitive blocks behind the header block, a block the sequence   *)
(* of its primitive groups.  A group is dense (DenseNodes), ways,          *)
(* relations, or other (none of the three, such as plain nodes).  Block    *)
(* positions are block numbers.  Coordinates of this part are in whole     *)
(* degrees, where the program has 1e-7 degree.                             *)
(***************************************************************************)
NoDrv == [pc |-> "idle"]

DriverIdle ==
    /\ inputFiles = <<>>
    /\ drv = NoDrv
    /\ wayRelations = <<>>
    /\ relationOutputObjects = <<>>
    /\ tileIndex = <<>>
    /\ log = <<>>

\* the zoom level of tileIndex (settings.basezoom)
BaseZoom == 2

Abs(x) == IF x < 0 THEN -x ELSE x

Max(a, b) == IF a > b THEN a ELSE b

\* the values of a delta-coded field (nodeId += dense.id(j), and the like)
DeltaDecode(ds) ==
    LET S[k \in 0..Len(ds)] == IF k = 0 THEN 0 ELSE S[k - 1] + ds[k]
    IN  [k \in 1..Len(ds) |-> S[k]]

\* latitude to projected latitude, truncated to the stored unit, for the
\* latitudes of the input files below
lat2latp(lat) ==
    CASE lat = 10 -> 10
      [] lat = 50 -> 57
      [] lat = -20 -> -20
      [] OTHER -> 0

lon2tilex(lon, z) == ((lon + 180) * 2^z) \div 360

latp2tiley(latp, z) == ((180 - latp) * 2^z) \div 360

latpLon2index(ll, z) == lon2tilex(ll.lon, z) * 65536 + latp2tiley(ll.latp, z)

\* adds the tiles of the points of the segment from startNode to endNode,
\* taken one stored unit apart along the longer axis
insertIntermediateTiles(tilelist, numPoints, startNode, endNode, z) ==
    LET dlatp == endNode.latp - startNode.latp
        dlon == endNode.lon - startNode.lon
        steps == Max(Abs(dlatp), Abs(dlon))
    IN  tilelist \cup
            {latpLon2index([latp |-> startNode.latp + (dlatp * t) \div steps,
                            lon |-> startNode.lon + (dlon * t) \div steps], z) :
                t \in 0..steps}

\* m[k].push_back(v) for each v of vs
MapPushBack(m, k, vs) ==
    IF vs = <<>> THEN m
    ELSE IF k \in DOMAIN m THEN [m EXCEPT ![k] = @ \o vs]
    ELSE [x \in DOMAIN m \cup {k} |-> IF x = k THEN vs ELSE m[x]]

OutputObject(geomType, id) == [layer |-> 0, geomType |-> geomType, objectID |-> id]

\* osmObject.outputs after a call of the script: one OutputObject or none
Outputs(emits, geomType, id) ==
    IF emits THEN <<OutputObject(geomType, id)>> ELSE <<>>

\* an entry of log: the read loop, in file number file, stored a node
\* ("node"), called node_function ("node_function"), inserted a way that a
\* relation refers to ("way_insert"), called way_function for a relation
\* ("relation"), cleared the way store ("clear"), or called way_function for
\* a way ("way")
Event(file, kind, id, outputs, nodeVec, inRelation) ==
    [file |-> file, kind |-> kind, id |-> id, outputs |-> outputs,
     nodeVec |-> nodeVec, inRelation |-> inRelation]

\* the loop over the nodes of a dense group; st holds nodes, tileIndex, log
ReadDense(file, dense, emits, st) ==
    LET ids == DeltaDecode(dense.id)
        lons == DeltaDecode(dense.lon)
        lats == DeltaDecode(dense.lat)
        F[j \in 0..Len(ids)] ==
            IF j = 0 THEN st
            ELSE LET prev == F[j - 1]
                     node == [latp |-> lat2latp(lats[j]), lon |-> lons[j]]
                     outputs == Outputs(emits[j], "POINT", ids[j])
                 IN  [nodes |-> NodeStore_insert_back(prev.nodes, ids[j], node),
                      tileIndex |->
                          IF dense.significant[j]
                          THEN MapPushBack(prev.tileIndex, latpLon2index(node, BaseZoom),
                                           outputs)
                          ELSE prev.tileIndex,
                      log |-> prev.log
                          \o <<Event(file, "node", ids[j], <<>>, <<>>, FALSE)>>
                          \o (IF dense.significant[j]
                              THEN <<Event(file, "node_function", ids[j], outputs,
                                           <<>>, FALSE)>>
                              ELSE <<>>)]
    IN  F[Len(ids)]

\* the way members of a relation, as WayIDs, with their roles
WayMembers(pbfRelation) ==
    LET ids == DeltaDecode(pbfRelation.memids)
        F[n \in 0..Len(ids)] ==
            IF n = 0 THEN <<>>
            ELSE IF pbfRelation.types[n] # "WAY" THEN F[n - 1]
            ELSE Append(F[n - 1], [wayId |-> ToWayID(ids[n]),
                                   role |-> pbfRelation.roles[n]])
    IN  F[Len(ids)]

\* waysInRelation after the first pass over a relations group
RememberWays(pgRelations, waysInRelation) ==
    waysInRelation \cup
        UNION {{WayMembers(pgRelations[j])[n].wayId :
                   n \in 1..Len(WayMembers(pgRelations[j]))} :
               j \in 1..Len(pgRelations)}

\* the second pass over a ways group; st holds ways, log
InsertRememberedWays(file, pgWays, waysInRelation, st) ==
    LET F[j \in 0..Len(pgWays)] ==
            IF j = 0 THEN st
            ELSE LET prev == F[j - 1]
                     wayId == ToWayID(pgWays[j].id)
                     nodeVec == DeltaDecode(pgWays[j].refs)
                 IN  IF wayId \in waysInRelation
                     THEN [ways |-> WayStore_insert_back(prev.ways, wayId, nodeVec),
                           log |-> Append(prev.log,
                                     Event(file, "way_insert", wayId, <<>>, nodeVec, FALSE))]
                     ELSE prev
    IN  F[Len(pgWays)]

\* a relation with a key "type" and a value "multipolygon"
IsMultipolygon(pbfRelation) ==
    /\ \E n \in 1..Len(pbfRelation.keys) : pbfRelation.keys[n] = "type"
    /\ \E n \in 1..Len(pbfRelation.vals) : pbfRelation.vals[n] = "multipolygon"

\* a member loop that puts the ways of role "inner" into outerWayVec and the
\* others into innerWayVec
RoleWayVec_swapped(pbfRelation, inner) ==
    LET ms == WayMembers(pbfRelation)
        F[n \in 0..Len(ms)] ==
            IF n = 0 THEN <<>>
            ELSE IF (ms[n].role # "inner") = inner THEN Append(F[n - 1], ms[n].wayId)
            ELSE F[n - 1]
    IN  F[Len(ms)]

\* outerWayVec or innerWayVec of a relation
RoleWayVec(pbfRelation, inner) ==
    LET ms == WayMembers(pbfRelation)
        F[n \in 0..Len(ms)] ==
            IF n = 0 THEN <<>>
            ELSE IF (ms[n].role = "inner") = inner THEN Append(F[n - 1], ms[n].wayId)
            ELSE F[n - 1]
    IN  F[Len(ms)]

\* the store keeps under the relation's ID the way list that
\* correctMultiPolygonRelation makes of the two vectors
RelationStore_insert_front(m, i, outerWayVec, innerWayVec) ==
    RelationStore_insert_back(m, i,
        correctMultiPolygonRelation(outerWayVec, innerWayVec).result)

\* a loop that files the ways under the relation: wayRelations[relID].push_back(*it)
PushRelation_swapped(m, wayVec, relID) ==
    LET F[n \in 0..Len(wayVec)] ==
            IF n = 0 THEN m ELSE MapPushBack(F[n - 1], relID, <<wayVec[n]>>)
    IN  F[Len(wayVec)]

\* wayRelations[*it].push_back(relID) for the ways of wayVec
PushRelation(m, wayVec, relID) ==
    LET F[n \in 0..Len(wayVec)] ==
            IF n = 0 THEN m ELSE MapPushBack(F[n - 1], wayVec[n], <<relID>>)
    IN  F[Len(wayVec)]

\* the second pass over a relations group; st holds relations, wayRelations,
\* relationOutputObjects, log
ReadRelations(file, pgRelations, emits, st) ==
    LET F[j \in 0..Len(pgRelations)] ==
            IF j = 0 THEN st
            ELSE LET prev == F[j - 1]
                     pbfRelation == pgRelations[j]
                     outerWayVec == RoleWayVec(pbfRelation, FALSE)
                     innerWayVec == RoleWayVec(pbfRelation, TRUE)
                     relID == ToWayID(pbfRelation.id)
                     outputs == Outputs(emits[j], "POLYGON", relID)
                     called == Append(prev.log,
                                  Event(file, "relation", relID, outputs, <<>>, FALSE))
                 IN  IF ~IsMultipolygon(pbfRelation) THEN prev
                     ELSE IF outputs = <<>> THEN [prev EXCEPT !.log = called]
                     ELSE [relations |->
                               RelationStore_insert_front(prev.relations, relID,
                                                          outerWayVec, innerWayVec),
                           wayRelations |->
                               PushRelation(PushRelation(prev.wayRelations, outerWayVec,
                                                         relID),
                                            innerWayVec, relID),
                           relationOutputObjects |->
                               MapPushBack(prev.relationOutputObjects, relID, outputs),
                           log |-> called]
    IN  F[Len(pgRelations)]

\* a tilelist loop that calls insertIntermediateTiles only for nodes more
\* than one tile apart in X or Y: if (dx>1 || dy>1)
WayTiles_noDiagonal(nodeVec) ==
    LET tileX(k) == lon2tilex(NodeStore_at(nodes, nodeVec[k]).lon, BaseZoom)
        tileY(k) == latp2tiley(NodeStore_at(nodes, nodeVec[k]).latp, BaseZoom)
        F[k \in 0..Len(nodeVec)] ==
            IF k = 0 THEN [tilelist |-> {}, calls |-> {}]
            ELSE LET dx == IF k > 1 THEN Abs(tileX(k) - tileX(k - 1)) ELSE 0
                     dy == IF k > 1 THEN Abs(tileY(k) - tileY(k - 1)) ELSE 0
                     far == dx > 1 \/ dy > 1
                 IN  [tilelist |->
                          (IF far
                           THEN insertIntermediateTiles(F[k - 1].tilelist, Max(dx, dy),
                                    NodeStore_at(nodes, nodeVec[k - 1]),
                                    NodeStore_at(nodes, nodeVec[k]), BaseZoom)
                           ELSE F[k - 1].tilelist)
                              \cup {tileX(k) * 65536 + tileY(k)},
                      calls |-> F[k - 1].calls \cup (IF far THEN {k} ELSE {})]
    IN  F[Len(nodeVec)]

\* the tilelist loop over the nodes of a way: tilelist, and the positions k
\* for which insertIntermediateTiles was called with nodes k - 1 and k
WayTiles(nodeVec) ==
    LET tileX(k) == lon2tilex(NodeStore_at(nodes, nodeVec[k]).lon, BaseZoom)
        tileY(k) == latp2tiley(NodeStore_at(nodes, nodeVec[k]).latp, BaseZoom)
        F[k \in 0..Len(nodeVec)] ==
            IF k = 0 THEN [tilelist |-> {}, calls |-> {}]
            ELSE LET dx == IF k > 1 THEN Abs(tileX(k) - tileX(k - 1)) ELSE 0
                     dy == IF k > 1 THEN Abs(tileY(k) - tileY(k - 1)) ELSE 0
                     far == dx > 1 \/ dy > 1 \/ (dx = 1 /\ dy = 1)
                 IN  [tilelist |->
                          (IF far
                           THEN insertIntermediateTiles(F[k - 1].tilelist, Max(dx, dy),
                                    NodeStore_at(nodes, nodeVec[k - 1]),
                                    NodeStore_at(nodes, nodeVec[k]), BaseZoom)
                           ELSE F[k - 1].tilelist)
                              \cup {tileX(k) * 65536 + tileY(k)},
                      calls |-> F[k - 1].calls \cup (IF far THEN {k} ELSE {})]
    IN  F[Len(nodeVec)]

\* tilelist of a way: the tiles of its nodes and of the segments between
\* nodes that are not in the same or in edge-adjacent tiles
WayTileList(nodeVec) == WayTiles(nodeVec).tilelist

\* a loop that stops after the first tile of tilelist
PushToTiles_oneTile(t, tilelist, outputs) ==
    LET first == {index \in tilelist : \A other \in tilelist : index <= other}
    IN  [index \in DOMAIN t \cup (IF outputs = <<>> THEN {} ELSE first) |->
            IF index \in first
            THEN (IF index \in DOMAIN t THEN t[index] ELSE <<>>) \o outputs
            ELSE t[index]]

\* tileIndex[index].push_back(...) of outputs for every tile of tilelist
PushToTiles(t, tilelist, outputs) ==
    [index \in DOMAIN t \cup (IF outputs = <<>> THEN {} ELSE tilelist) |->
        IF index \in tilelist
        THEN (IF index \in DOMAIN t THEN t[index] ELSE <<>>) \o outputs
        ELSE t[index]]

\* the OutputObjects of the relations of relIDs pushed to every tile
PushRelationsToTiles(t, tilelist, relIDs) ==
    LET F[n \in 0..Len(relIDs)] ==
            IF n = 0 THEN t
            ELSE PushToTiles(F[n - 1], tilelist, MapAt(relationOutputObjects, relIDs[n]))
    IN  F[Len(relIDs)]

\* a third pass that stores a way only when the script left output for it:
\* if (!osmObject.empty())
ReadWays_emittingOnly(file, pgWays, emits, st) ==
    LET F[j \in 0..Len(pgWays)] ==
            IF j = 0 THEN st
            ELSE LET prev == F[j - 1]
                     wayId == ToWayID(pgWays[j].id)
                     nodeVec == DeltaDecode(pgWays[j].refs)
                     outputs == Outputs(emits[j], "LINESTRING", wayId)
                     inRelation == MapCount(wayRelations, wayId) > 0
                     called == Append(prev.log,
                                  Event(file, "way", wayId, outputs, nodeVec, inRelation))
                     tilelist == WayTileList(nodeVec)
                 IN  IF outputs # <<>>
                     THEN [ways |-> WayStore_insert_back(prev.ways, wayId, nodeVec),
                           tileIndex |-> PushToTiles(prev.tileIndex, tilelist, outputs),
                           log |-> called]
                     ELSE [prev EXCEPT !.log = called]
    IN  F[Len(pgWays)]

\* the third pass over a ways group; st holds ways, tileIndex, log
ReadWays(file, pgWays, emits, st) ==
    LET F[j \in 0..Len(pgWays)] ==
            IF j = 0 THEN st
            ELSE LET prev == F[j - 1]
                     wayId == ToWayID(pgWays[j].id)
                     nodeVec == DeltaDecode(pgWays[j].refs)
                     outputs == Outputs(emits[j], "LINESTRING", wayId)
                     inRelation == MapCount(wayRelations, wayId) > 0
                     called == Append(prev.log,
                                  Event(file, "way", wayId, outputs, nodeVec, inRelation))
                     tilelist == WayTileList(nodeVec)
                 IN  IF outputs # <<>> \/ inRelation
                     THEN [ways |-> WayStore_insert_back(prev.ways, wayId, nodeVec),
                           tileIndex |->
                               LET own == PushToTiles(prev.tileIndex, tilelist, outputs)
                               IN  IF inRelation
                                   THEN PushRelationsToTiles(own, tilelist,
                                            MapAt(wayRelations, wayId))
                                   ELSE own,
                           log |-> called]
                     ELSE [prev EXCEPT !.log = called]
    IN  F[Len(pgWays)]

(***************************************************************************)
(* SpecStore: any sequence of insert_back and clear on the three stores.   *)
(* hist records the last operation: the store it acted on, its arguments   *)
(* and the contents of that store before the call.                         *)
(***************************************************************************)
StoreNodeIDs == {1, 2}
StoreWayIDs == {1, HighWayID}
StoreRelIDs == {1, 2}
StoreCoords == {[latp |-> 0, lon |-> 0], [latp |-> 5, lon |-> 7]}
StoreNodeVecs == {<<1, 2>>, <<2, 1, 1>>}
StoreWayVecs == {<<1>>, <<1, PSEUDO_WAY_REVERSE_MARK, HighWayID>>}

NoHist == [store |-> "none", op |-> "none", k |-> 0, v |-> <<>>, pre |-> EmptyStore]
NoCall == [pre |-> <<>>, nodeList |-> <<>>, reverse |-> FALSE, way |-> 0, pos |-> 0]
NoMpc == [pc |-> "idle"]
NoAsm == [pc |-> "idle"]

InitStore ==
    /\ nodes = EmptyStore
    /\ ways = EmptyStore
    /\ relations = EmptyStore
    /\ hist = NoHist
    /\ sink = <<>>
    /\ call = NoCall
    /\ mpc = NoMpc
    /\ asm = NoAsm
    /\ DriverIdle

NodeInsert ==
    \E i \in StoreNodeIDs, coord \in StoreCoords :
        /\ nodes' = NodeStore_insert_back(nodes, i, coord)
        /\ hist' = [store |-> "nodes", op |-> "insert", k |-> i, v |-> coord, pre |-> nodes]
        /\ UNCHANGED <<ways, relations, sink, call, mpc, asm, drvVars>>

WayInsert ==
    \E i \in StoreWayIDs, nodeVec \in StoreNodeVecs :
        /\ ways' = WayStore_insert_back(ways, i, nodeVec)
        /\ hist' = [store |-> "ways", op |-> "insert", k |-> i, v |-> nodeVec, pre |-> ways]
        /\ UNCHANGED <<nodes, relations, sink, call, mpc, asm, drvVars>>

RelationInsert ==
    \E i \in StoreRelIDs, wayVec \in StoreWayVecs :
        /\ relations' = RelationStore_insert_back(relations, i, wayVec)
        /\ hist' = [store |-> "relations", op |-> "insert", k |-> i, v |-> wayVec,
                    pre |-> relations]
        /\ UNCHANGED <<nodes, ways, sink, call, mpc, asm, drvVars>>

NodeClear ==
    /\ nodes' = NodeStore_clear(nodes)
    /\ hist' = [store |-> "nodes", op |-> "clear", k |-> 0, v |-> <<>>, pre |-> nodes]
    /\ UNCHANGED <<ways, relations, sink, call, mpc, asm, drvVars>>

WayClear ==
    /\ ways' = WayStore_clear(ways)
    /\ hist' = [store |-> "ways", op |-> "clear", k |-> 0, v |-> <<>>, pre |-> ways]
    /\ UNCHANGED <<nodes, relations, sink, call, mpc, asm, drvVars>>

RelationClear ==
    /\ relations' = RelationStore_clear(relations)
    /\ hist' = [store |-> "relations", op |-> "clear", k |-> 0, v |-> <<>>, pre |-> relations]
    /\ UNCHANGED <<nodes, ways, sink, call, mpc, asm, drvVars>>

NextStore ==
    \/ NodeInsert
    \/ WayInsert
    \/ RelationInsert
    \/ NodeClear
    \/ WayClear
    \/ RelationClear

SpecStore == InitStore /\ [][NextStore]_vars

(***************************************************************************)
(* SpecFill: fillPoints called again and again on one sink, which starts   *)
(* empty, with any node list over FillNodes and any reverse flag.          *)
(***************************************************************************)
\* nodes 1..4 are the corners of a unit square; node 5 lies on node 1
FillNodes ==
    [i \in 1..5 |->
        CASE i = 1 -> [latp |-> 0, lon |-> 0]
          [] i = 2 -> [latp |-> 1, lon |-> 0]
          [] i = 3 -> [latp |-> 1, lon |-> 1]
          [] i = 4 -> [latp |-> 0, lon |-> 1]
          [] OTHER -> [latp |-> 0, lon |-> 0]]

FillNodeIDs == {1, 2, 5}
MaxNodeList == 2
MaxSink == 4

SeqsUpTo(S, n) == UNION {[1..k -> S] : k \in 0..n}

InitFill ==
    /\ nodes = FillNodes
    /\ ways = EmptyStore
    /\ relations = EmptyStore
    /\ hist = NoHist
    /\ sink = <<>>
    /\ call = NoCall
    /\ mpc = NoMpc
    /\ asm = NoAsm
    /\ DriverIdle

FillPointsCall ==
    \E nodeList \in SeqsUpTo(FillNodeIDs, MaxNodeList), reverse \in BOOLEAN :
        /\ Len(sink) + Len(nodeList) <= MaxSink
        /\ sink' = fillPoints(sink, nodeList, reverse)
        /\ call' = [pre |-> sink, nodeList |-> nodeList, reverse |-> reverse, way |-> 0,
                    pos |-> 0]
        /\ UNCHANGED <<nodes, ways, relations, hist, mpc, asm, drvVars>>

NextFill == FillPointsCall

SpecFill == InitFill /\ [][NextFill]_vars

NoAdjacentEqual(points) ==
    \A i \in 1..Len(points) - 1 : ~PointEquals(points[i], points[i + 1])

\* C5 as stated: starting from an empty sink, after any sequence of fillPoints
\* calls the sink never holds two consecutive equal points.
C5_NoAdjacentEqualPoints == NoAdjacentEqual(sink)

\* the points of a node list that differ from the point before them (the
\* sink's last point for the first node), in node-list order
KeptPoints(pre, nodeList) ==
    LET pt(i) == MakePoint(nodes[nodeList[i]])
        prev(i) == IF i > 1 THEN pt(i - 1)
                   ELSE IF Len(pre) > 0 THEN pre[Len(pre)] ELSE DummyPoint
        F[k \in 0..Len(nodeList)] ==
            IF k = 0 THEN <<>>
            ELSE IF pt(k) # prev(k) THEN Append(F[k - 1], pt(k)) ELSE F[k - 1]
    IN  F[Len(nodeList)]

CallAppended == SubSeq(sink, Len(call.pre) + 1, Len(sink))

\* C7: a fillPoints call leaves every point that was in the sink at its
\* position and value; it appends the pushed points in node-list order when
\* reverse is false and in the opposite order when reverse is true.
C7_ReverseOnlyPushed ==
    call # NoCall =>
        /\ Len(sink) >= Len(call.pre)
        /\ SubSeq(sink, 1, Len(call.pre)) = call.pre
        /\ ~call.reverse => CallAppended = KeptPoints(call.pre, call.nodeList)
        /\ call.reverse => CallAppended = Reverse(KeptPoints(call.pre, call.nodeList))

\* C7 witness: a reversing call on a sink of two different points that pushed
\* two different points.
C7_Witness ==
    /\ call.reverse
    /\ Len(call.pre) = 2
    /\ call.pre[1] # call.pre[2]
    /\ Len(sink) = 4
    /\ sink[3] # sink[4]
    /\ sink[3] = MakePoint(nodes[call.nodeList[2]])

(***************************************************************************)
(* SpecMP: wayListMultiPolygon on an encoded way list, one loop step per   *)
(* action.  The way lists are the concatenations of at most MaxUnits       *)
(* units, a unit being a way ID, a way ID behind REVERSE_MARK, OUTER_MARK  *)
(* or INNER_MARK; every way ID is in the WayStore.                         *)
(***************************************************************************)
MPWays == (10 :> <<1, 2, 3>>) @@ (11 :> <<3, 4, 1>>)

MaxUnits == 4

MPUnits ==
    {<<w>> : w \in DOMAIN MPWays}
        \cup {<<PSEUDO_WAY_REVERSE_MARK, w>> : w \in DOMAIN MPWays}
        \cup {<<PSEUDO_WAY_OUTER_MARK>>, <<PSEUDO_WAY_INNER_MARK>>}

RECURSIVE MPWayLists(_)
MPWayLists(n) ==
    IF n = 0 THEN {<<>>}
    ELSE LET shorter == MPWayLists(n - 1)
         IN  shorter \cup {l \o u : l \in shorter, u \in MPUnits}

InitMP ==
    /\ nodes = FillNodes
    /\ ways = MPWays
    /\ relations = EmptyStore
    /\ hist = NoHist
    /\ sink = <<>>
    /\ call = NoCall
    /\ asm = NoAsm
    /\ DriverIdle
    /\ \E wayList \in MPWayLists(MaxUnits) : mpc = MPStart(wayList)

MPRingStartAct ==
    /\ mpc.pc = "ringStart"
    /\ mpc' = MPRingStart(mpc)
    /\ call' = NoCall
    /\ UNCHANGED <<nodes, ways, relations, hist, sink, asm, drvVars>>

MPFillWayAct ==
    /\ mpc.pc = "fill"
    /\ ~MPAtRingEnd(mpc)
    /\ mpc' = MPFillWay(mpc)
    /\ call' = [pre |-> mpc.ring, nodeList |-> WayStore_at(ways, MPFillWayID(mpc)),
                reverse |-> MPFillReverse(mpc), way |-> MPFillWayID(mpc),
                pos |-> MPFillPos(mpc)]
    /\ UNCHANGED <<nodes, ways, relations, hist, sink, asm, drvVars>>

MPRingEndAct ==
    /\ mpc.pc = "fill"
    /\ MPAtRingEnd(mpc)
    /\ mpc' = MPRingEnd(mpc)
    /\ UNCHANGED <<nodes, ways, relations, hist, sink, call, asm, drvVars>>

NextMP ==
    \/ MPRingStartAct
    \/ MPFillWayAct
    \/ MPRingEndAct

SpecMP == InitMP /\ [][NextMP]_vars

\* the points the last fillPoints call of the ring loop added to the ring
MPContributed == SubSeq(mpc.ring, Len(call.pre) + 1, Len(mpc.ring))

\* the points a way contributes when it is assembled alone, without a mark
MPAlone(w) == MPRun(MPStart(<<w>>)).ring

MPMarkedReverse == call.pos > 1 /\ mpc.wayList[call.pos - 1] = PSEUDO_WAY_REVERSE_MARK

\* C6 as stated: whatever points the ring already holds, a way behind
\* REVERSE_MARK contributes exactly the reverse of what it contributes alone,
\* and the mark reverses only the ID that follows it.
C6_ReverseOfAloneAlways ==
    (mpc.pc = "fill" /\ call.way # 0) =>
        /\ call.reverse <=> MPMarkedReverse
        /\ call.reverse => MPContributed = Reverse(MPAlone(call.way))

\* C6 amended: the same, provided the ring is empty or its last point differs
\* from the point of the way's first stored node (otherwise fillPoints drops
\* that node's point as a duplicate before it reverses).
C6_ReverseOfAlone ==
    (mpc.pc = "fill" /\ call.way # 0) =>
        /\ call.reverse <=> MPMarkedReverse
        /\ (/\ call.reverse
            /\ \/ call.pre = <<>>
               \/ call.pre[Len(call.pre)] # MakePoint(nodes[call.nodeList[1]]))
           => MPContributed = Reverse(MPAlone(call.way))

\* C6 witness: a marked way filled into a ring that already holds points, behind
\* an unmarked way, contributing the reverse of its three points.
C6_Witness ==
    /\ mpc.pc = "fill"
    /\ call.reverse
    /\ call.pos = 3
    /\ Len(call.pre) = 3
    /\ MPContributed = Reverse(MPAlone(call.way))
    /\ Len(MPContributed) = 3

SetMin(S) == CHOOSE m \in S : \A x \in S : m <= x

RECURSIVE SortedSeq(_)
SortedSeq(S) == IF S = {} THEN <<>> ELSE <<SetMin(S)>> \o SortedSeq(S \ {SetMin(S)})

MarkPositions(W) == {i \in 1..Len(W) : IsRingMark(W[i])}

\* the last position of the ring that starts at position a
SegEnd(W, a) ==
    LET later == {m \in MarkPositions(W) : m >= a}
    IN  IF later = {} THEN Len(W) ELSE SetMin(later) - 1

\* the ring of the way IDs at positions a..SegEnd(W, a)
SegRing(W, a) ==
    LET b == SegEnd(W, a)
        G[k \in (a - 1)..b] ==
            IF k = a - 1 THEN <<>>
            ELSE IF W[k] = PSEUDO_WAY_REVERSE_MARK THEN G[k - 1]
            ELSE fillPoints(G[k - 1], ways[W[k]],
                            k > a /\ W[k - 1] = PSEUDO_WAY_REVERSE_MARK)
    IN  G[b]

\* the polygons W describes: one for position 0 (the first ring) and one for
\* each OUTER_MARK, each with the rings behind the INNER_MARKs up to the next
\* OUTER_MARK as its inners
DescribedMP(W) ==
    LET opens == SortedSeq({0} \cup {m \in MarkPositions(W) : W[m] = PSEUDO_WAY_OUTER_MARK})
        next(k) == IF k < Len(opens) THEN opens[k + 1] ELSE Len(W) + 1
        holes(k) == SortedSeq({m \in MarkPositions(W) :
                                  /\ W[m] = PSEUDO_WAY_INNER_MARK
                                  /\ opens[k] < m
                                  /\ m < next(k)})
    IN  [k \in 1..Len(opens) |->
            [outer |-> SegRing(W, opens[k] + 1),
             inners |-> [j \in 1..Len(holes(k)) |-> SegRing(W, holes(k)[j] + 1)]]]

CountOuterMarks(W) == Cardinality({m \in 1..Len(W) : W[m] = PSEUDO_WAY_OUTER_MARK})

\* C8: for a non-empty W the result has 1 + (number of OUTER_MARK) polygons;
\* the first ring and each ring behind an OUTER_MARK are the outers, each ring
\* behind an INNER_MARK is an inner of the polygon opened last, in W's order
\* (each ring winding-corrected); for the empty W the result is empty.
C8_PolygonStructure ==
    mpc.pc = "done" =>
        IF mpc.wayList = <<>> THEN mpc.mp = <<>>
        ELSE /\ Len(mpc.mp) = 1 + CountOuterMarks(mpc.wayList)
             /\ mpc.mp = CorrectMultiPolygon(DescribedMP(mpc.wayList))

\* C8 witness: a finished list with an OUTER_MARK and an INNER_MARK behind it:
\* two polygons, the second with one inner ring of three points and a closure.
C8_Witness ==
    /\ mpc.pc = "done"
    /\ Len(mpc.mp) = 2
    /\ Len(mpc.mp[1].inners) = 0
    /\ Len(mpc.mp[2].inners) = 1
    /\ Len(mpc.mp[2].inners[1]) = 4
    /\ Len(mpc.mp[1].outer) = 4

\* the store the last operation acted on, and its contains / get
HistStore ==
    CASE hist.store = "nodes" -> nodes
      [] hist.store = "ways" -> ways
      [] hist.store = "relations" -> relations
      [] OTHER -> EmptyStore

HistCount(k) ==
    CASE hist.store = "nodes" -> NodeStore_count(nodes, k)
      [] hist.store = "ways" -> WayStore_count(ways, k)
      [] hist.store = "relations" -> RelationStore_count(relations, k)
      [] OTHER -> 0

HistAt(k) ==
    CASE hist.store = "nodes" -> NodeStore_at(nodes, k)
      [] hist.store = "ways" -> WayStore_at(ways, k)
      [] hist.store = "relations" -> RelationStore_at(relations, k)
      [] OTHER -> NotFound

\* C3 as stated: after insert(k, v) in any reachable state, contains(k) is true
\* and get(k) returns v.
C3_InsertThenGetAlways ==
    hist.op = "insert" => (HistCount(hist.k) = 1 /\ HistAt(hist.k) = hist.v)

\* C3 amended: after insert(k, v), contains(k) is true, and get(k) returns v
\* when k was absent before the call (a present k keeps its earlier value).
C3_InsertThenGet ==
    hist.op = "insert" =>
        /\ HistCount(hist.k) = 1
        /\ hist.k \notin DOMAIN hist.pre => HistAt(hist.k) = hist.v

\* C3 witness: an insert of a fresh key into a store that an insert and a clear
\* have already acted on (the high way ID exercises the int conversion).
C3_Witness ==
    /\ hist.op = "insert"
    /\ hist.store = "ways"
    /\ hist.k = HighWayID
    /\ hist.k \notin DOMAIN hist.pre
    /\ hist.pre # EmptyStore
    /\ WayStore_at(ways, hist.k) = hist.v

\* C4: inserting an ID that is already present leaves the store unchanged:
\* the same keys (no second entry) and get(id) still the first value.
C4_FirstWins ==
    (hist.op = "insert" /\ hist.k \in DOMAIN hist.pre) =>
        /\ HistStore = hist.pre
        /\ DOMAIN HistStore = DOMAIN hist.pre
        /\ HistAt(hist.k) = hist.pre[hist.k]

\* C4 witness: a second insert of a present ID with a different value.
C4_Witness ==
    /\ hist.op = "insert"
    /\ hist.k \in DOMAIN hist.pre
    /\ hist.pre[hist.k] # hist.v
    /\ HistAt(hist.k) = hist.pre[hist.k]

(***************************************************************************)
(* SpecAsm: correctMultiPolygonRelation on an outer and an inner bag drawn *)
(* from the ways of a small map.  Way 10 is a closed square A; ways 11 and *)
(* 12 are the two halves of a square B inside A (12 has to be reversed);   *)
(* way 13 is a closed square C inside A that overlaps B; way 14 is a       *)
(* two-node way, which makes no valid ring; way 15 is a closed square D    *)
(* inside both B and C; way 20 is a closed square inside A, B, C and D;    *)
(* way 21 is a closed triangle outside all of them.                        *)
(***************************************************************************)
AsmNodes ==
    [n \in 1..23 |->
        CASE n = 1 -> [latp |-> 0, lon |-> 0]
          [] n = 2 -> [latp |-> 24, lon |-> 0]
          [] n = 3 -> [latp |-> 24, lon |-> 24]
          [] n = 4 -> [latp |-> 0, lon |-> 24]
          [] n = 5 -> [latp |-> 4, lon |-> 4]
          [] n = 6 -> [latp |-> 18, lon |-> 4]
          [] n = 7 -> [latp |-> 18, lon |-> 18]
          [] n = 8 -> [latp |-> 4, lon |-> 18]
          [] n = 9 -> [latp |-> 12, lon |-> 12]
          [] n = 10 -> [latp |-> 22, lon |-> 12]
          [] n = 11 -> [latp |-> 22, lon |-> 22]
          [] n = 12 -> [latp |-> 12, lon |-> 22]
          [] n = 13 -> [latp |-> 14, lon |-> 14]
          [] n = 14 -> [latp |-> 16, lon |-> 14]
          [] n = 15 -> [latp |-> 16, lon |-> 16]
          [] n = 16 -> [latp |-> 14, lon |-> 16]
          [] n = 17 -> [latp |-> 40, lon |-> 40]
          [] n = 18 -> [latp |-> 44, lon |-> 40]
          [] n = 19 -> [latp |-> 40, lon |-> 44]
          [] n = 20 -> [latp |-> 13, lon |-> 13]
          [] n = 21 -> [latp |-> 17, lon |-> 13]
          [] n = 22 -> [latp |-> 17, lon |-> 17]
          [] OTHER -> [latp |-> 13, lon |-> 17]]

AsmWays ==
    (10 :> <<1, 2, 3, 4, 1>>) @@ (11 :> <<5, 6, 7>>) @@ (12 :> <<5, 8, 7>>)
        @@ (13 :> <<9, 10, 11, 12, 9>>) @@ (14 :> <<1, 3>>)
        @@ (15 :> <<20, 21, 22, 23, 20>>)
        @@ (20 :> <<13, 14, 15, 16, 13>>) @@ (21 :> <<17, 18, 19, 17>>)

AsmOuterPool == {10, 11, 12, 13, 14, 15}
AsmInnerPool == {20, 21}
MaxOuterWays == 3
MaxInnerWays == 2

\* the sequences of at most n different elements of S
Bags(S, n) ==
    {b \in SeqsUpTo(S, n) : \A i \in 1..Len(b), j \in 1..Len(b) : i # j => b[i] # b[j]}

InitAsm ==
    /\ nodes = AsmNodes
    /\ ways = AsmWays
    /\ relations = EmptyStore
    /\ hist = NoHist
    /\ sink = <<>>
    /\ call = NoCall
    /\ mpc = NoMpc
    /\ DriverIdle
    /\ \E outerWayVec \in Bags(AsmOuterPool, MaxOuterWays),
          innerWayVec \in Bags(AsmInnerPool, MaxInnerWays) :
           asm = [pc |-> "call", outerWayVec |-> outerWayVec, innerWayVec |-> innerWayVec]

Assemble ==
    /\ asm.pc = "call"
    /\ asm' = [pc |-> "done", outerWayVec |-> asm.outerWayVec,
               innerWayVec |-> asm.innerWayVec,
               out |-> correctMultiPolygonRelation(asm.outerWayVec, asm.innerWayVec)]
    /\ UNCHANGED <<nodes, ways, relations, hist, sink, call, mpc, drvVars>>

NextAsm == Assemble

SpecAsm == InitAsm /\ [][NextAsm]_vars

(***************************************************************************)
(* Claims about correctMultiPolygonRelation (SpecAsm).                     *)
(***************************************************************************)
\* the pieces of W between the elements equal to mark, in order
SplitAt(W, mark) ==
    LET cuts == SortedSeq({0} \cup {m \in 1..Len(W) : W[m] = mark})
        stop(k) == IF k < Len(cuts) THEN cuts[k + 1] ELSE Len(W) + 1
    IN  [k \in 1..Len(cuts) |-> SubSeq(W, cuts[k] + 1, stop(k) - 1)]

\* the way vectors of the inner rings whose parent is j, in the order built
AsmChildren(out, j) ==
    LET ks == SortedSeq({k \in 1..Len(out.parents) : out.parents[k] = j})
    IN  [n \in 1..Len(ks) |-> out.innerWayVecVec[ks[n]]]

\* C9: the returned sequence is, for each surviving outer ring j in the order
\* built, OUTER_MARK if j is not the first, that outer's way vector, then
\* INNER_MARK and the way vector of each inner ring parented to j in the order
\* the inner rings were built; it never starts or ends with a mark, every
\* REVERSE_MARK is followed by a real way ID, and it is empty when no outer
\* ring survives.
C9_FlattenedEncoding ==
    asm.pc = "done" =>
        LET out == asm.out
            W == out.result
            polys == SplitAt(W, PSEUDO_WAY_OUTER_MARK)
        IN  /\ (out.outerWayVecVec = <<>>) => (W = <<>>)
            /\ (out.outerWayVecVec # <<>>) =>
                  /\ Len(polys) = Len(out.outerWayVecVec)
                  /\ \A j \in 1..Len(polys) :
                        SplitAt(polys[j], PSEUDO_WAY_INNER_MARK)
                            = <<out.outerWayVecVec[j]>> \o AsmChildren(out, j)
                  /\ ~IsRingMark(W[1]) /\ W[1] # PSEUDO_WAY_REVERSE_MARK
                  /\ ~IsRingMark(W[Len(W)]) /\ W[Len(W)] # PSEUDO_WAY_REVERSE_MARK
            /\ \A m \in 1..Len(W) :
                  W[m] = PSEUDO_WAY_REVERSE_MARK =>
                      /\ m < Len(W)
                      /\ W[m + 1] \in AsmOuterPool \cup AsmInnerPool

\* two outer rings survive, the first built from a reversed way and holding
\* an inner ring
C9_Witness ==
    /\ asm.pc = "done"
    /\ Len(asm.out.outerWayVecVec) = 2
    /\ asm.out.result = <<11, PSEUDO_WAY_REVERSE_MARK, 12, PSEUDO_WAY_INNER_MARK, 20,
                          PSEUDO_WAY_OUTER_MARK, 10>>

\* the bijections of 1..n
Perms(n) == {p \in [1..n -> 1..n] : \A a, b \in 1..n : p[a] = p[b] => a = b}

\* the outer rings that hold inner ring k
AsmContaining(out, k) ==
    {j \in 1..Len(out.outerRingVec) : within(out.innerRingVec[k], out.outerRingVec[j])}

\* those of them that are within every outer ring that holds inner ring k
AsmSmallest(out, k) ==
    {j \in AsmContaining(out, k) :
        \A j2 \in AsmContaining(out, k) :
            within(out.outerRingVec[j], out.outerRingVec[j2])}

\* the outer ring the parent search picks for inner ring k when the outer
\* rings are presented in the order p (0: none)
AsmParentUnder(out, k, p) ==
    LET par == AsmParent(out.innerRingVec[k],
                         [j \in 1..Len(out.outerRingVec) |-> out.outerRingVec[p[j]]])
    IN  IF par = 0 THEN 0 ELSE p[par]

\* the way vectors of the rings in the returned sequence
AsmEncodedRings(out) ==
    LET polys == SplitAt(out.result, PSEUDO_WAY_OUTER_MARK)
    IN  UNION {{SplitAt(polys[j], PSEUDO_WAY_INNER_MARK)[n] :
                   n \in 1..Len(SplitAt(polys[j], PSEUDO_WAY_INNER_MARK))} :
               j \in 1..Len(polys)}

\* an inner ring held by no outer ring has no parent in any order of the
\* outer rings, is reported, and is the only kind of ring left out
AsmOrphansDropped(out) ==
    /\ \A k \in 1..Len(out.innerRingVec) :
          AsmContaining(out, k) = {} =>
              /\ \A p \in Perms(Len(out.outerRingVec)) : AsmParentUnder(out, k, p) = 0
              /\ out.parents[k] = 0
              /\ \E n \in 1..Len(out.warnings) :
                    out.warnings[n] = [kind |-> "innerNotInOuter",
                                       ways |-> out.innerWayVecVec[k]]
              /\ out.innerWayVecVec[k] \notin AsmEncodedRings(out)
    /\ \A j \in 1..Len(out.outerWayVecVec) : out.outerWayVecVec[j] \in AsmEncodedRings(out)
    /\ \A k \in 1..Len(out.innerRingVec) :
          AsmContaining(out, k) # {} => out.innerWayVecVec[k] \in AsmEncodedRings(out)

\* the statement for every inner ring: whenever some outer ring holds inner
\* ring k, the parent is an outer ring within every outer ring that holds k,
\* and the same one in every order of the outer rings
C10_SmallestEnclosingAlways ==
    asm.pc = "done" =>
        LET out == asm.out
        IN  /\ \A k \in 1..Len(out.innerRingVec) :
                  AsmContaining(out, k) # {} =>
                      /\ out.parents[k] \in AsmSmallest(out, k)
                      /\ \A p \in Perms(Len(out.outerRingVec)) :
                            AsmParentUnder(out, k, p) = out.parents[k]
            /\ AsmOrphansDropped(out)

\* C10: when one of the outer rings that hold an inner ring is within every
\* other outer ring that holds it, the inner ring is attached to that outer
\* ring, in every order of the outer rings; an inner ring that no outer ring
\* holds is left out of the returned sequence with a warning, and every other
\* ring stays in it.
C10_SmallestEnclosing ==
    asm.pc = "done" =>
        LET out == asm.out
        IN  /\ \A k \in 1..Len(out.innerRingVec) :
                  AsmSmallest(out, k) # {} =>
                      /\ out.parents[k] \in AsmSmallest(out, k)
                      /\ \A p \in Perms(Len(out.outerRingVec)) :
                            AsmParentUnder(out, k, p) = out.parents[k]
            /\ AsmOrphansDropped(out)

\* inner ring 20 lies in the outer rings of way 10 and of ways 11 and 12 and
\* moves from the first to the second; inner ring 21 lies in no outer ring
C10_Witness ==
    /\ asm.pc = "done"
    /\ asm.outerWayVec = <<10, 11, 12>>
    /\ asm.innerWayVec = <<21, 20>>
    /\ Cardinality(AsmContaining(asm.out, 2)) = 2
    /\ AsmSmallest(asm.out, 2) = {2}
    /\ asm.out.parents = <<0, 2>>
    /\ asm.out.result = <<10, PSEUDO_WAY_OUTER_MARK, 11, PSEUDO_WAY_REVERSE_MARK, 12,
                          PSEUDO_WAY_INNER_MARK, 20>>

(***************************************************************************)
(* SpecWalk: correctMultiPolygonRelation on bags that exercise the ring    *)
(* walk.  Ways 10, 11, 12, 15 and 20 are those of SpecAsm.  Way 16 is a    *)
(* closed way that runs from a corner of A to the opposite corner and      *)
(* back; way 17 is stored with an empty node list; way 18 is not in the    *)
(* WayStore; way 19 runs from the corner of B where ways 11 and 12 end to  *)
(* a corner of A; way 22 is an open way inside A whose last node lies next *)
(* to the first node of way 20 and far from its own first node.            *)
(***************************************************************************)
WalkNodes ==
    AsmNodes @@ (24 :> [latp |-> 2, lon |-> 2]) @@ (25 :> [latp |-> 20, lon |-> 2])
        @@ (26 :> [latp |-> 20, lon |-> 12]) @@ (27 :> [latp |-> 14, lon |-> 12])

WalkWays ==
    (10 :> <<1, 2, 3, 4, 1>>) @@ (11 :> <<5, 6, 7>>) @@ (12 :> <<5, 8, 7>>)
        @@ (15 :> <<20, 21, 22, 23, 20>>) @@ (16 :> <<1, 3, 1>>) @@ (17 :> <<>>)
        @@ (19 :> <<7, 3>>) @@ (20 :> <<13, 14, 15, 16, 13>>)
        @@ (22 :> <<24, 25, 26, 27>>)

WalkOuterPool == {10, 11, 12, 15, 16, 17, 18, 19}
WalkInnerPool == {20, 22}

InitWalk ==
    /\ nodes = WalkNodes
    /\ ways = WalkWays
    /\ relations = EmptyStore
    /\ hist = NoHist
    /\ sink = <<>>
    /\ call = NoCall
    /\ mpc = NoMpc
    /\ DriverIdle
    /\ \E outerWayVec \in Bags(WalkOuterPool, MaxOuterWays),
          innerWayVec \in Bags(WalkInnerPool, MaxInnerWays) :
           asm = [pc |-> "call", outerWayVec |-> outerWayVec, innerWayVec |-> innerWayVec]

SpecWalk == InitWalk /\ [][NextAsm]_vars

(***************************************************************************)
(* Claims about the ring walk (SpecWalk).                                  *)
(***************************************************************************)
\* the coordinate of the first or of the last node of way i of the bag
WayEnd(wayVec, i, isFirst) ==
    LET nodeList == WayStore_at(ways, wayVec[i])
    IN  NodeStore_at(nodes, nodeList[IF isFirst THEN 1 ELSE Len(nodeList)])

\* the ways of the bag that a round of the walk may still take
Unconsumed(s) == {i \in DOMAIN s.matched : ~s.matched[i]}

\* the distance from where the round stands to an endpoint of way i
StepDist(wayVec, s, i, isFirst) == sqDist(s.currentCoord, WayEnd(wayVec, i, isFirst))

\* the distance from where the round stands to the nearer endpoint of way i
StepNear(wayVec, s, i) ==
    IF StepDist(wayVec, s, i, TRUE) <= StepDist(wayVec, s, i, FALSE)
    THEN StepDist(wayVec, s, i, TRUE) ELSE StepDist(wayVec, s, i, FALSE)

\* the unconsumed ways with an endpoint strictly nearer than the ring's start
StepNearer(wayVec, s) ==
    {i \in Unconsumed(s) : StepNear(wayVec, s, i) < sqDist(s.currentCoord, s.startCoord)}

\* the way IDs and marks that the rounds of a walk append
RECURSIVE StepsEncoding(_, _)
StepsEncoding(wayVec, steps) ==
    IF steps = <<>> THEN <<>>
    ELSE (IF Head(steps).reversed THEN <<PSEUDO_WAY_REVERSE_MARK>> ELSE <<>>)
             \o <<wayVec[Head(steps).idx]>> \o StepsEncoding(wayVec, Tail(steps))

\* the walks of both bags, each with the bag it ran on
AsmAllWalks ==
    [k \in 1..Len(asm.out.outerWalks) |->
        [wayVec |-> asm.outerWayVec, walk |-> asm.out.outerWalks[k]]]
    \o [k \in 1..Len(asm.out.innerWalks) |->
        [wayVec |-> asm.innerWayVec, walk |-> asm.out.innerWalks[k]]]

\* one walk obeys the nearest-endpoint rule
NearestRule(wayVec, walk) ==
    LET steps == walk.steps
    IN  /\ walk.ways = StepsEncoding(wayVec, steps)
        /\ \A k \in 1..Len(steps) :
              LET s == steps[k]
              IN  /\ s.currentCoord = WayEnd(wayVec, s.idx, s.reversed)
                  /\ (k = Len(steps)) <=> (StepNearer(wayVec, s) = {})
                  /\ k < Len(steps) =>
                        LET i == steps[k + 1].idx
                        IN  /\ i \in StepNearer(wayVec, s)
                            /\ \A j \in Unconsumed(s) :
                                  StepNear(wayVec, s, i) <= StepNear(wayVec, s, j)
                            /\ steps[k + 1].reversed <=>
                                  (StepDist(wayVec, s, i, FALSE)
                                      < StepDist(wayVec, s, i, TRUE))

\* C11: every round of a ring walk appends the unconsumed way that has an
\* endpoint nearest to the walking coordinate, if that endpoint is strictly
\* nearer than the ring's start; the way gets REVERSE_MARK exactly when its
\* last node is nearer than its first; the walking coordinate moves to the
\* way's other endpoint; the walk ends when no unconsumed endpoint is strictly
\* nearer than the start.
C11_NearestEndpoint ==
    asm.pc = "done" =>
        \A n \in 1..Len(AsmAllWalks) :
            NearestRule(AsmAllWalks[n].wayVec, AsmAllWalks[n].walk)

\* a walk that jumps a gap to the nearest way, and takes it backwards
C11_Witness ==
    /\ asm.pc = "done"
    /\ asm.outerWayVec = <<11, 12>>
    /\ asm.innerWayVec = <<22, 20>>
    /\ asm.out.outerWalks[1].ways = <<11, PSEUDO_WAY_REVERSE_MARK, 12>>
    /\ asm.out.innerWalks[1].ways = <<22, 20>>
    /\ asm.out.innerWalks[1].steps[1].minSqd = 4
    /\ C11_NearestEndpoint

\* the endpoints of unconsumed ways at distance zero from where the round
\* stands, as candidate numbers in the order of the search (2i-1: first
\* endpoint of way i, 2i: its second endpoint)
ZeroCands(wayVec, s) ==
    {c \in 1..(2 * Len(wayVec)) :
        /\ (c + 1) \div 2 \in Unconsumed(s)
        /\ StepDist(wayVec, s, (c + 1) \div 2, c % 2 = 1) = 0}

ZeroWays(wayVec, s) == {(c + 1) \div 2 : c \in ZeroCands(wayVec, s)}

\* the warnings for the candidates cs, in the order of the search
ShareWarnings(wayVec, cs) ==
    LET q == SortedSeq(cs)
    IN  [n \in 1..Len(q) |->
            [kind |-> "shareEndpoint", way |-> wayVec[(q[n] + 1) \div 2],
             first |-> q[n] % 2 = 1]]

AsmAllSteps ==
    {<<n, k>> \in (1..Len(AsmAllWalks)) \X (1..(MaxOuterWays + MaxInnerWays)) :
        k <= Len(AsmAllWalks[n].walk.steps)}

\* C12 as stated: whenever several unconsumed ways have an endpoint at
\* distance zero from the walking coordinate the walk continues with the
\* lowest-indexed of them and warns, and it warns in no other situation.
C12_ShareWarningAlways ==
    asm.pc = "done" =>
        \A p \in AsmAllSteps :
            LET wayVec == AsmAllWalks[p[1]].wayVec
                s == AsmAllWalks[p[1]].walk.steps[p[2]]
            IN  /\ Cardinality(ZeroWays(wayVec, s)) >= 2 =>
                      /\ s.nextIdx = SetMin(ZeroWays(wayVec, s))
                      /\ s.shared # <<>>
                /\ s.shared # <<>> => Cardinality(ZeroWays(wayVec, s)) >= 2

\* C12: when the ring's start is not at distance zero from the walking
\* coordinate and unconsumed ways have an endpoint at distance zero, the walk
\* continues with the lowest-indexed of them and the warning is emitted for
\* every other zero-distance endpoint, in the order of the search; when the
\* start is at distance zero the ring closes and the warning is emitted for
\* every zero-distance endpoint of an unconsumed way; no other warning of
\* this kind is emitted.
C12_ShareWarning ==
    asm.pc = "done" =>
        \A p \in AsmAllSteps :
            LET wayVec == AsmAllWalks[p[1]].wayVec
                s == AsmAllWalks[p[1]].walk.steps[p[2]]
                zero == ZeroCands(wayVec, s)
            IN  IF s.currentCoord = s.startCoord
                THEN /\ p[2] = Len(AsmAllWalks[p[1]].walk.steps)
                     /\ s.shared = ShareWarnings(wayVec, zero)
                ELSE IF zero = {} THEN s.shared = <<>>
                ELSE /\ s.nextIdx = SetMin(ZeroWays(wayVec, s))
                     /\ s.shared = ShareWarnings(wayVec, zero \ {SetMin(zero)})

\* ways 19 and 12 both have an endpoint where way 11 ends: the walk goes on
\* with way 19 and warns about the last node of way 12
C12_Witness ==
    /\ asm.pc = "done"
    /\ asm.outerWayVec = <<11, 19, 12>>
    /\ asm.out.outerWalks[1].steps[1].nextIdx = 2
    /\ asm.out.outerWalks[1].steps[1].shared
           = <<[kind |-> "shareEndpoint", way |-> 12, first |-> FALSE]>>
    /\ C12_ShareWarning

\* the distance of the connection a round has to choose: to the nearest
\* endpoint of an unconsumed way, or to the ring's start if none is nearer
NearestDist(wayVec, s) ==
    IF StepNearer(wayVec, s) = {} THEN sqDist(s.currentCoord, s.startCoord)
    ELSE SetMin({StepNear(wayVec, s, i) : i \in StepNearer(wayVec, s)})

\* C13: in a round where no unconsumed way has an endpoint at distance zero
\* from the walking coordinate and the walking coordinate is not the ring's
\* start, the walk goes on with the nearest way, or closes the ring when the
\* start is at least as near, and emits the "cannot find a connected way"
\* warning with the way and the distance chosen; a round whose chosen
\* connection has distance zero emits no such warning.
C13_NotConnectedWarning ==
    asm.pc = "done" =>
        \A p \in AsmAllSteps :
            LET wayVec == AsmAllWalks[p[1]].wayVec
                steps == AsmAllWalks[p[1]].walk.steps
                s == steps[p[2]]
                near == StepNearer(wayVec, s)
            IN  /\ s.minSqd = NearestDist(wayVec, s)
                /\ (ZeroCands(wayVec, s) = {} /\ s.currentCoord # s.startCoord) =>
                      /\ s.minSqd > 0
                      /\ IF near = {} THEN s.nextIdx = steps[1].idx
                         ELSE /\ s.nextIdx \in near
                              /\ StepNear(wayVec, s, s.nextIdx) = s.minSqd
                      /\ s.notConnected
                             = <<[kind |-> "notConnected", way |-> wayVec[s.nextIdx],
                                  sqd |-> s.minSqd]>>
                      /\ \E n \in 1..Len(asm.out.warnings) :
                             asm.out.warnings[n] = s.notConnected[1]
                /\ s.minSqd = 0 => s.notConnected = <<>>

\* the open way 22 is followed by way 20, four units away, and the ring is
\* then closed over a gap; both rounds warn
C13_Witness ==
    /\ asm.pc = "done"
    /\ asm.outerWayVec = <<10>>
    /\ asm.innerWayVec = <<22, 20>>
    /\ Len(asm.out.innerWalks[1].steps) = 2
    /\ asm.out.innerWalks[1].steps[1].notConnected
           = <<[kind |-> "notConnected", way |-> 20, sqd |-> 4]>>
    /\ asm.out.innerWalks[1].steps[2].notConnected
           = <<[kind |-> "notConnected", way |-> 22, sqd |-> 288]>>
    /\ C13_NotConnectedWarning

\* the way is stored with a node list whose first and last node are the same
ClosedWay(w) ==
    /\ WayStore_count(ways, w) = 1
    /\ Len(WayStore_at(ways, w)) > 1
    /\ WayStore_at(ways, w)[1] = WayStore_at(ways, w)[Len(WayStore_at(ways, w))]

\* the rings of an encoding: its pieces between OUTER_MARK and INNER_MARK
EncodedRings(W) ==
    LET polys == SplitAt(W, PSEUDO_WAY_OUTER_MARK)
    IN  UNION {{SplitAt(polys[j], PSEUDO_WAY_INNER_MARK)[k] :
                    k \in 1..Len(SplitAt(polys[j], PSEUDO_WAY_INNER_MARK))} :
               j \in 1..Len(polys)}

\* C14 as stated: an outer bag of one closed way (and no inner way) always
\* yields the encoding that is this way alone.
C14_ClosedWayOneRingAlways ==
    (/\ asm.pc = "done"
     /\ Len(asm.outerWayVec) = 1
     /\ asm.innerWayVec = <<>>
     /\ ClosedWay(asm.outerWayVec[1]))
        => asm.out.result = asm.outerWayVec

\* C14: an outer bag of one closed way whose ring is valid (and no inner way)
\* yields the encoding that is this way alone, one ring without REVERSE_MARK;
\* and in every encoding the first element of every ring is a real way ID, not
\* REVERSE_MARK.
C14_FirstWayForward ==
    asm.pc = "done" =>
        /\ (/\ Len(asm.outerWayVec) = 1
            /\ asm.innerWayVec = <<>>
            /\ ClosedWay(asm.outerWayVec[1])
            /\ asm.out.outerWalks[1].valid)
               => asm.out.result = asm.outerWayVec
        /\ asm.out.result # <<>> =>
              \A r \in EncodedRings(asm.out.result) :
                  /\ r # <<>>
                  /\ r[1] # PSEUDO_WAY_REVERSE_MARK
        /\ \A n \in 1..Len(AsmAllWalks) :
              AsmAllWalks[n].walk.ways[1] # PSEUDO_WAY_REVERSE_MARK

\* the closed way 10 alone
C14_Witness ==
    /\ asm.pc = "done"
    /\ asm.outerWayVec = <<10>>
    /\ asm.innerWayVec = <<>>
    /\ ClosedWay(10)
    /\ asm.out.result = <<10>>
    /\ C14_FirstWayForward

\* every way of the walk behind the first is reached at its last node: from
\* where the round before it stands, its last node is nearer than its first
AllTakenBackwards(wayVec, walk) ==
    /\ Len(walk.steps) >= 2
    /\ \A k \in 2..Len(walk.steps) :
          StepDist(wayVec, walk.steps[k - 1], walk.steps[k].idx, FALSE)
              < StepDist(wayVec, walk.steps[k - 1], walk.steps[k].idx, TRUE)

\* the positions of the real way IDs of an encoding
RealPositions(W) ==
    {m \in 1..Len(W) : ~IsRingMark(W[m]) /\ W[m] # PSEUDO_WAY_REVERSE_MARK}

\* the outer bag makes one valid ring of ways taken backwards, and is the
\* whole relation
OneRingBackwards ==
    /\ asm.pc = "done"
    /\ asm.innerWayVec = <<>>
    /\ Len(asm.out.outerWalks) = 1
    /\ asm.out.outerWalks[1].valid
    /\ AllTakenBackwards(asm.outerWayVec, asm.out.outerWalks[1])

\* C15 as stated: when the ways of a bag have to be traversed end-to-start to
\* form the ring, every real way ID of the encoding is preceded by
\* REVERSE_MARK.
C15_AllReversedAlways ==
    OneRingBackwards =>
        \A m \in RealPositions(asm.out.result) :
            m > 1 /\ asm.out.result[m - 1] = PSEUDO_WAY_REVERSE_MARK

\* C15: when every way of a ring behind its first has to be traversed
\* end-to-start, every real way ID of the ring except the first is preceded by
\* REVERSE_MARK, and the first is not: it is always traversed start-to-end.
C15_AllButFirstReversed ==
    asm.pc = "done" =>
        /\ \A n \in 1..Len(AsmAllWalks) :
              AllTakenBackwards(AsmAllWalks[n].wayVec, AsmAllWalks[n].walk) =>
                  LET W == AsmAllWalks[n].walk.ways
                  IN  /\ 1 \in RealPositions(W)
                      /\ \A m \in RealPositions(W) \ {1} :
                            W[m - 1] = PSEUDO_WAY_REVERSE_MARK
                      /\ Cardinality(RealPositions(W)) = Len(AsmAllWalks[n].walk.steps)
        /\ OneRingBackwards =>
              /\ asm.out.result = asm.out.outerWalks[1].ways
              /\ \A m \in RealPositions(asm.out.result) \ {1} :
                    asm.out.result[m - 1] = PSEUDO_WAY_REVERSE_MARK

\* the halves 11 and 12 of B both start at node 5: behind way 11, way 12 has
\* to be taken from its last node
C15_Witness ==
    /\ asm.pc = "done"
    /\ asm.outerWayVec = <<11, 12>>
    /\ OneRingBackwards
    /\ asm.out.result = <<11, PSEUDO_WAY_REVERSE_MARK, 12>>
    /\ C15_AllButFirstReversed

\* the way is not in the WayStore; the way is stored with no node
AbsentWay(w) == WayStore_count(ways, w) = 0
EmptyWay(w) == WayStore_count(ways, w) = 1 /\ WayStore_at(ways, w) = <<>>

\* the bag without its entries that are absent or empty
RECURSIVE WithoutSkipped(_)
WithoutSkipped(wayVec) ==
    IF wayVec = <<>> THEN <<>>
    ELSE (IF AbsentWay(Head(wayVec)) \/ EmptyWay(Head(wayVec)) THEN <<>>
          ELSE <<Head(wayVec)>>) \o WithoutSkipped(Tail(wayVec))

\* what the assembler built: the encoding and the rings behind it
AsmBuilt(out) ==
    [result |-> out.result, outerWayVecVec |-> out.outerWayVecVec,
     innerWayVecVec |-> out.innerWayVecVec, outerRingVec |-> out.outerRingVec,
     innerRingVec |-> out.innerRingVec, parents |-> out.parents]

\* the number of warnings of the run that equal x
WarningCount(x) ==
    Cardinality({n \in 1..Len(asm.out.warnings) : asm.out.warnings[n] = x})

\* the number of entries of the two bags that equal w
EntryCount(w) ==
    Cardinality({n \in 1..Len(asm.outerWayVec) : asm.outerWayVec[n] = w})
        + Cardinality({n \in 1..Len(asm.innerWayVec) : asm.innerWayVec[n] = w})

\* the entries of both bags as pairs of bag and index: those skipped
SkippedEntries ==
    {e \in {<<asm.outerWayVec, i>> : i \in 1..Len(asm.outerWayVec)}
              \cup {<<asm.innerWayVec, i>> : i \in 1..Len(asm.innerWayVec)} :
        AbsentWay(e[1][e[2]]) \/ EmptyWay(e[1][e[2]])}

\* a skipped entry is consumed before the first walk, no round appends it,
\* and its ID is not in the encoding
SkippedIsLeftOut(e) ==
    /\ \A n \in 1..Len(AsmAllWalks) :
          AsmAllWalks[n].wayVec = e[1] =>
              \A k \in 1..Len(AsmAllWalks[n].walk.steps) :
                  /\ AsmAllWalks[n].walk.steps[k].matched[e[2]]
                  /\ AsmAllWalks[n].walk.steps[k].idx # e[2]
    /\ \A m \in 1..Len(asm.out.result) : asm.out.result[m] # e[1][e[2]]

\* the rest of the relation is assembled as if the skipped entries were not
\* in the bags
SkippedIsIgnored ==
    AsmBuilt(asm.out)
        = AsmBuilt(correctMultiPolygonRelation(WithoutSkipped(asm.outerWayVec),
                                               WithoutSkipped(asm.innerWayVec)))

WalkIdxs(walk) == {walk.steps[k].idx : k \in 1..Len(walk.steps)}

\* the indices of the entries of a bag that went into rings found invalid
InvalidIdxs(walks) ==
    UNION {WalkIdxs(walks[n]) : n \in {m \in 1..Len(walks) : ~walks[m].valid}}

\* the bag without the entries at the indices in drop
WithoutIdxs(wayVec, drop) ==
    LET keep == SortedSeq((1..Len(wayVec)) \ drop)
    IN  [n \in 1..Len(keep) |-> wayVec[keep[n]]]

\* the ways of an invalid walk are not taken by any later walk of the bag
StaysConsumed(walks, n) ==
    \A m \in (n + 1)..Len(walks) :
        /\ WalkIdxs(walks[m]) \cap WalkIdxs(walks[n]) = {}
        /\ \A k \in 1..Len(walks[m].steps) :
              \A i \in WalkIdxs(walks[n]) : walks[m].steps[k].matched[i]

InvalidLeftOut(wayVec, walks) ==
    \A n \in 1..Len(walks) :
        ~walks[n].valid =>
            /\ \A i \in WalkIdxs(walks[n]) :
                  \A m \in 1..Len(asm.out.result) : asm.out.result[m] # wayVec[i]
            /\ StaysConsumed(walks, n)

RoleBag(W, inner) ==
    LET F[m \in 0..Len(W)] ==
            IF m = 0 THEN [bag |-> <<>>, inner |-> FALSE]
            ELSE IF W[m] = PSEUDO_WAY_OUTER_MARK THEN [F[m - 1] EXCEPT !.inner = FALSE]
            ELSE IF W[m] = PSEUDO_WAY_INNER_MARK THEN [F[m - 1] EXCEPT !.inner = TRUE]
            ELSE IF W[m] = PSEUDO_WAY_REVERSE_MARK THEN F[m - 1]
            ELSE IF F[m - 1].inner = inner
            THEN [F[m - 1] EXCEPT !.bag = Append(@, W[m])]
            ELSE F[m - 1]
    IN  F[Len(W)].bag

\* the real way IDs of a ring of an encoding
RingWays(r) == {r[m] : m \in RealPositions(r)}

\* the rings an encoding describes: the ways of each, its role, and the ways
\* of the outer ring it belongs to
RingSet(W) ==
    IF W = <<>> THEN {}
    ELSE LET polys == SplitAt(W, PSEUDO_WAY_OUTER_MARK)
         IN  UNION {LET rs == SplitAt(polys[j], PSEUDO_WAY_INNER_MARK)
                    IN  {[ways |-> RingWays(rs[k]), inner |-> k > 1,
                          parent |-> RingWays(rs[1])] : k \in 1..Len(rs)} :
                    j \in 1..Len(polys)}

\* the assembler run again on the bags split off its own encoding
AsmAgain ==
    correctMultiPolygonRelation(RoleBag(asm.out.result, FALSE),
                                RoleBag(asm.out.result, TRUE))

\* C18 as stated: running the assembler on the bags split off its encoding
\* always yields the same rings, each with the same ways, role and parent.
C18_IdempotentAlways ==
    asm.pc = "done" => RingSet(AsmAgain.result) = RingSet(asm.out.result)

\* every ring of the encoding was walked without a gap: none of its rounds
\* emitted the "cannot find a connected way" warning
EncodedRingsConnected ==
    \A n \in 1..Len(AsmAllWalks) :
        (/\ asm.out.result # <<>>
         /\ AsmAllWalks[n].walk.ways \in EncodedRings(asm.out.result)) =>
            \A k \in 1..Len(AsmAllWalks[n].walk.steps) :
                AsmAllWalks[n].walk.steps[k].notConnected = <<>>

\* C18: when every ring of the encoding was walked without a gap, running the
\* assembler on the bags split off the encoding yields the same encoding, and
\* so the same rings, each with the same ways, role and parent.
C18_Idempotent ==
    (asm.pc = "done" /\ EncodedRingsConnected) =>
        /\ AsmAgain.result = asm.out.result
        /\ RingSet(AsmAgain.result) = RingSet(asm.out.result)

\* two outer rings, one of two ways, and an inner ring in the second
C18_Witness ==
    /\ asm.pc = "done"
    /\ asm.outerWayVec = <<12, 15, 11>>
    /\ asm.innerWayVec = <<20>>
    /\ EncodedRingsConnected
    /\ asm.out.result = <<12, PSEUDO_WAY_REVERSE_MARK, 11, PSEUDO_WAY_OUTER_MARK, 15,
                          PSEUDO_WAY_INNER_MARK, 20>>
    /\ RoleBag(asm.out.result, FALSE) = <<12, 11, 15>>
    /\ RoleBag(asm.out.result, TRUE) = <<20>>
    /\ Cardinality(RingSet(asm.out.result)) = 3
    /\ C18_Idempotent

(***************************************************************************)
(* Spec: main's loop over the input files, up to the point where the tiles *)
(* are written.  The script's answer to each call (OutputObjects or none)  *)
(* is free.  Nodes 1 to 4 are the corners of a square, node 5 lies two     *)
(* tiles west of node 1, nodes 6 and 7 lie in another tile, node 8 in the  *)
(* tile east of node 1 and north of node 6, node 9 in the tile between     *)
(* nodes 5 and 1.                                                          *)
(***************************************************************************)
DrvLat == <<10, 50, 50, 10, 10, -20, -20, 10, 10>>
DrvLon == <<10, 10, 50, 50, -170, 100, 120, 100, -80>>

DeltaEncode(xs) == [k \in 1..Len(xs) |-> IF k = 1 THEN xs[1] ELSE xs[k] - xs[k - 1]]

DenseGroup(ids, significant) ==
    [kind |-> "dense",
     id |-> DeltaEncode(ids),
     lat |-> DeltaEncode([k \in 1..Len(ids) |-> DrvLat[ids[k]]]),
     lon |-> DeltaEncode([k \in 1..Len(ids) |-> DrvLon[ids[k]]]),
     significant |-> [k \in 1..Len(ids) |-> ids[k] \in significant]]

PbfWay(id, nodeIds) == [id |-> id, refs |-> DeltaEncode(nodeIds)]

WaysGroup(pbfWays) == [kind |-> "ways", ways |-> pbfWays]

PbfRelation(id, keys, vals, memids, types, roles) ==
    [id |-> id, keys |-> keys, vals |-> vals, memids |-> DeltaEncode(memids),
     types |-> types, roles |-> roles]

RelationsGroup(pbfRelations) == [kind |-> "relations", relations |-> pbfRelations]

OtherGroup == [kind |-> "other"]

\* nodes, then ways, then relations, one group in each block
SortedFile ==
    << <<DenseGroup(<<1, 2, 3, 4, 5>>, {1})>>,
       <<WaysGroup(<<PbfWay(10, <<1, 2, 3, 4, 1>>), PbfWay(11, <<1, 5>>)>>)>>,
       <<RelationsGroup(<<PbfRelation(30, <<"type">>, <<"multipolygon">>,
                                      <<10, 1>>, <<"WAY", "NODE">>,
                                      <<"outer", "label">>)>>)>> >>

\* the relations block in front of the ways block
RelationsFirstFile ==
    << <<DenseGroup(<<6, 7>>, {})>>,
       <<RelationsGroup(<<PbfRelation(31, <<"type">>, <<"multipolygon">>,
                                      <<12>>, <<"WAY">>, <<"outer">>)>>)>>,
       <<WaysGroup(<<PbfWay(12, <<6, 7>>)>>)>> >>

\* a dense group behind the ways block, and a group of another kind
UnsortedFile ==
    << <<DenseGroup(<<6>>, {})>>,
       <<WaysGroup(<<PbfWay(12, <<6, 7>>)>>)>>,
       <<OtherGroup>>,
       <<DenseGroup(<<7>>, {})>> >>

\* a second ways block behind the relations block, with a way of relation 32
SplitWaysFile ==
    << <<DenseGroup(<<1, 2, 3, 4, 5>>, {})>>,
       <<WaysGroup(<<PbfWay(10, <<1, 2, 3, 4, 1>>)>>)>>,
       <<RelationsGroup(<<PbfRelation(32, <<"type">>, <<"multipolygon">>,
                                      <<10, 13>>, <<"WAY", "WAY">>,
                                      <<"outer", "inner">>)>>)>>,
       <<WaysGroup(<<PbfWay(13, <<1, 5>>)>>)>> >>

\* two ways groups in one block, and a dense group with a significant node
\* behind the ways block
TwoGroupsFile ==
    << <<DenseGroup(<<6>>, {})>>,
       <<WaysGroup(<<PbfWay(12, <<6, 7>>)>>), WaysGroup(<<PbfWay(14, <<7, 6>>)>>)>>,
       <<DenseGroup(<<7>>, {7})>> >>

FilePool == {SortedFile, RelationsFirstFile, UnsortedFile, SplitWaysFile, TwoGroupsFile}

MaxFiles == 2

\* the locals of the loop body at the start of file number file
DrvStart(file) ==
    [pc |-> "open", file |-> file, pos |-> 0, blockStart |-> 0, i |-> 0,
     checkedRelations |-> FALSE, processedRelations |-> FALSE,
     wayPosition |-> -1, waysInRelation |-> {}]

Init ==
    /\ inputFiles \in {fs \in SeqsUpTo(FilePool, MaxFiles) : fs # <<>>}
    /\ nodes = EmptyStore
    /\ ways = EmptyStore
    /\ relations = EmptyStore
    /\ hist = NoHist
    /\ sink = <<>>
    /\ call = NoCall
    /\ mpc = NoMpc
    /\ asm = NoAsm
    /\ drv = DrvStart(1)
    /\ wayRelations = <<>>
    /\ relationOutputObjects = <<>>
    /\ tileIndex = <<>>
    /\ log = <<>>

otherVars == <<hist, sink, call, mpc, asm, inputFiles>>

\* the block that readBlock has read, and the group the for loop is at
CurrentBlock == inputFiles[drv.file][drv.blockStart]
AtGroup == drv.pc = "group" /\ drv.i <= Len(CurrentBlock)
pg == CurrentBlock[drv.i]

\* the answers of the script to n calls
Emits(n) == [1..n -> BOOLEAN]

\* the file is opened and its header block read
OpenFile ==
    /\ drv.pc = "open"
    /\ drv' = [drv EXCEPT !.pc = "read", !.pos = 1]
    /\ UNCHANGED <<nodes, ways, relations, wayRelations, relationOutputObjects,
                   tileIndex, log, otherVars>>

\* readBlock reads a primitive block; the stream is good (after seekg(-1),
\* which fails, it is not: see ReadBlockFailed)
ReadBlock ==
    /\ drv.pc = "read"
    /\ drv.pos >= 1
    /\ drv.pos <= Len(inputFiles[drv.file])
    /\ drv' = [drv EXCEPT !.pc = "group", !.blockStart = drv.pos,
                          !.pos = drv.pos + 1, !.i = 1]
    /\ UNCHANGED <<nodes, ways, relations, wayRelations, relationOutputObjects,
                   tileIndex, log, otherVars>>

AtEof == drv.pc = "read" /\ drv.pos > Len(inputFiles[drv.file])

\* the first end of file: back to the ways
EofCheckedRelations ==
    /\ AtEof
    /\ ~drv.checkedRelations
    /\ drv' = [drv EXCEPT !.checkedRelations = TRUE, !.pos = drv.wayPosition]
    /\ UNCHANGED <<nodes, ways, relations, wayRelations, relationOutputObjects,
                   tileIndex, log, otherVars>>

\* the second end of file: the way store is cleared, and back to the ways
EofProcessedRelations ==
    /\ AtEof
    /\ drv.checkedRelations
    /\ ~drv.processedRelations
    /\ ways' = WayStore_clear(ways)
    /\ log' = Append(log, Event(drv.file, "clear", 0, <<>>, <<>>, FALSE))
    /\ drv' = [drv EXCEPT !.processedRelations = TRUE, !.pos = drv.wayPosition]
    /\ UNCHANGED <<nodes, relations, wayRelations, relationOutputObjects,
                   tileIndex, otherVars>>

\* the third end of file: on to the next file, or to the writing of tiles
EofBreak ==
    /\ AtEof
    /\ drv.checkedRelations
    /\ drv.processedRelations
    /\ drv' = IF drv.file < Len(inputFiles) THEN DrvStart(drv.file + 1)
              ELSE [drv EXCEPT !.pc = "tiles"]
    /\ UNCHANGED <<nodes, ways, relations, wayRelations, relationOutputObjects,
                   tileIndex, log, otherVars>>

DenseDone(st) ==
    /\ nodes' = st.nodes
    /\ tileIndex' = st.tileIndex
    /\ log' = st.log

\* a dense group, in any pass
GroupDense ==
    /\ AtGroup
    /\ pg.kind = "dense"
    /\ \E emits \in {e \in Emits(Len(pg.id)) :
                        \A j \in 1..Len(pg.id) : e[j] => pg.significant[j]} :
          DenseDone(ReadDense(drv.file, pg, emits,
                        [nodes |-> nodes, tileIndex |-> tileIndex, log |-> log]))
    /\ drv' = [drv EXCEPT !.i = drv.i + 1]
    /\ UNCHANGED <<ways, relations, wayRelations, relationOutputObjects, otherVars>>

\* first pass, ways: the position of the block is remembered
GroupSkipWays ==
    /\ AtGroup
    /\ pg.kind = "ways"
    /\ ~drv.checkedRelations
    /\ drv' = [drv EXCEPT !.wayPosition = IF @ = -1 THEN drv.blockStart ELSE @,
                          !.i = drv.i + 1]
    /\ UNCHANGED <<nodes, ways, relations, wayRelations, relationOutputObjects,
                   tileIndex, log, otherVars>>

\* first pass, relations: their ways are remembered
GroupRememberWays ==
    /\ AtGroup
    /\ pg.kind = "relations"
    /\ ~drv.checkedRelations
    /\ drv' = [drv EXCEPT !.waysInRelation = RememberWays(pg.relations, @),
                          !.i = drv.i + 1]
    /\ UNCHANGED <<nodes, ways, relations, wayRelations, relationOutputObjects,
                   tileIndex, log, otherVars>>

\* first pass, any other group: the rest of the block is left out
GroupNothingToCheck ==
    /\ AtGroup
    /\ pg.kind = "other"
    /\ ~drv.checkedRelations
    /\ drv' = [drv EXCEPT !.pc = "read"]
    /\ UNCHANGED <<nodes, ways, relations, wayRelations, relationOutputObjects,
                   tileIndex, log, otherVars>>

InsertDone(st) ==
    /\ ways' = st.ways
    /\ log' = st.log

\* second pass, ways: the remembered ones are inserted
GroupInsertWays ==
    /\ AtGroup
    /\ pg.kind = "ways"
    /\ drv.checkedRelations
    /\ ~drv.processedRelations
    /\ InsertDone(InsertRememberedWays(drv.file, pg.ways, drv.waysInRelation,
                                       [ways |-> ways, log |-> log]))
    /\ drv' = [drv EXCEPT !.i = drv.i + 1]
    /\ UNCHANGED <<nodes, relations, wayRelations, relationOutputObjects,
                   tileIndex, otherVars>>

RelationsDone(st) ==
    /\ relations' = st.relations
    /\ wayRelations' = st.wayRelations
    /\ relationOutputObjects' = st.relationOutputObjects
    /\ log' = st.log

\* second pass, relations: waysInRelation is forgotten, the multipolygons
\* are given to the script
GroupReadRelations ==
    /\ AtGroup
    /\ pg.kind = "relations"
    /\ drv.checkedRelations
    /\ ~drv.processedRelations
    /\ \E emits \in Emits(Len(pg.relations)) :
          RelationsDone(ReadRelations(drv.file, pg.relations, emits,
                            [relations |-> relations, wayRelations |-> wayRelations,
                             relationOutputObjects |-> relationOutputObjects,
                             log |-> log]))
    /\ drv' = [drv EXCEPT !.waysInRelation = {}, !.i = drv.i + 1]
    /\ UNCHANGED <<nodes, ways, tileIndex, otherVars>>

\* second pass, any other group: waysInRelation is forgotten, the rest of
\* the block is left out
GroupNothingToProcess ==
    /\ AtGroup
    /\ pg.kind = "other"
    /\ drv.checkedRelations
    /\ ~drv.processedRelations
    /\ drv' = [drv EXCEPT !.waysInRelation = {}, !.pc = "read"]
    /\ UNCHANGED <<nodes, ways, relations, wayRelations, relationOutputObjects,
                   tileIndex, log, otherVars>>

WaysDone(st) ==
    /\ ways' = st.ways
    /\ tileIndex' = st.tileIndex
    /\ log' = st.log

\* third pass, a group that is not dense: its ways, if it has any, are given
\* to the script, and the rest of the block is left out
GroupReadWays ==
    /\ AtGroup
    /\ pg.kind # "dense"
    /\ drv.processedRelations
    /\ IF pg.kind = "ways"
       THEN \E emits \in Emits(Len(pg.ways)) :
               WaysDone(ReadWays(drv.file, pg.ways, emits,
                            [ways |-> ways, tileIndex |-> tileIndex, log |-> log]))
       ELSE UNCHANGED <<ways, tileIndex, log>>
    /\ drv' = [drv EXCEPT !.pc = "read"]
    /\ UNCHANGED <<nodes, relations, wayRelations, relationOutputObjects, otherVars>>

\* the for loop is through with the block
EndOfBlock ==
    /\ drv.pc = "group"
    /\ drv.i > Len(CurrentBlock)
    /\ drv' = [drv EXCEPT !.pc = "read"]
    /\ UNCHANGED <<nodes, ways, relations, wayRelations, relationOutputObjects,
                   tileIndex, log, otherVars>>

Next ==
    \/ OpenFile
    \/ ReadBlock
    \/ EofCheckedRelations
    \/ EofProcessedRelations
    \/ EofBreak
    \/ GroupDense
    \/ GroupSkipWays
    \/ GroupRememberWays
    \/ GroupNothingToCheck
    \/ GroupInsertWays
    \/ GroupReadRelations
    \/ GroupNothingToProcess
    \/ GroupReadWays
    \/ EndOfBlock

Spec == Init /\ [][Next]_vars

(***************************************************************************)
(* Claims about the read loop (Spec).                                      *)
(***************************************************************************)
\* C1: when the writing of tiles begins, every way that the third pass of
\* any file gave to the script and that had OutputObjects or was in a
\* relation with OutputObjects is in the way store with its node list.
C1_WaysPresentAtTileWriting ==
    drv.pc = "tiles" =>
        \A n \in 1..Len(log) :
            (log[n].kind = "way" /\ (log[n].outputs # <<>> \/ log[n].inRelation)) =>
                /\ WayStore_count(ways, log[n].id) = 1
                /\ WayStore_at(ways, log[n].id) = log[n].nodeVec

\* the place of a kind of event in the order nodes, ways of relations,
\* relations, clear, ways
PhaseRank(kind) ==
    CASE kind = "node" -> 1
      [] kind = "node_function" -> 1
      [] kind = "way_insert" -> 2
      [] kind = "relation" -> 3
      [] kind = "clear" -> 4
      [] OTHER -> 5

\* the numbers of the files that have been read to their third end
FilesDone ==
    {f \in 1..Len(inputFiles) :
        IF drv.pc = "tiles" THEN TRUE ELSE f < drv.file}

\* C2: in each file the events come in the order: nodes stored, ways of
\* relations inserted, relations processed, the way store cleared, ways
\* processed; the way store is cleared exactly once per file.
C2_EventOrder ==
    /\ \A a, b \in 1..Len(log) :
          (a < b /\ log[a].file = log[b].file) =>
              PhaseRank(log[a].kind) <= PhaseRank(log[b].kind)
    /\ \A f \in FilesDone :
          Cardinality({n \in 1..Len(log) : log[n].file = f /\ log[n].kind = "clear"}) = 1

\* the way members of a relation whose role is, or is not, "inner"
RECURSIVE MemberBag(_, _)
MemberBag(members, inner) ==
    IF members = <<>> THEN <<>>
    ELSE (IF (Head(members).role = "inner") = inner THEN <<Head(members).wayId>>
          ELSE <<>>) \o MemberBag(Tail(members), inner)

\* the multipolygon relations of a relations group, in order
RECURSIVE Multipolygons(_)
Multipolygons(pgRelations) ==
    IF pgRelations = <<>> THEN <<>>
    ELSE (IF IsMultipolygon(Head(pgRelations)) THEN <<Head(pgRelations)>> ELSE <<>>)
             \o Multipolygons(Tail(pgRelations))

\* the step is the second pass over a relations group (phase B)
PhaseBStep ==
    /\ AtGroup
    /\ pg.kind = "relations"
    /\ drv.checkedRelations
    /\ ~drv.processedRelations
    /\ drv'.i = drv.i + 1

\* the relation store after a phase B step holds, for each multipolygon of
\* the group that the script answered with output, what the assembler makes
\* of its bags, and it got no entry for one the script answered with nothing
StoredByStep ==
    LET new == SubSeq(log', Len(log) + 1, Len(log'))
        mps == Multipolygons(pg.relations)
    IN  /\ Len(new) = Len(mps)
        /\ \A n \in 1..Len(mps) :
              /\ new[n].kind = "relation"
              /\ new[n].id = ToWayID(mps[n].id)
              /\ IF new[n].outputs # <<>>
                 THEN /\ RelationStore_count(relations', new[n].id) = 1
                      /\ RelationStore_at(relations', new[n].id)
                             = correctMultiPolygonRelation(
                                   MemberBag(WayMembers(mps[n]), FALSE),
                                   MemberBag(WayMembers(mps[n]), TRUE)).result
                 ELSE (\A k \in 1..Len(new) :
                          new[k].id = new[n].id => new[k].outputs = <<>>)
                          => RelationStore_count(relations', new[n].id)
                                 = RelationStore_count(relations, new[n].id)
        /\ \A id \in DOMAIN relations' \ DOMAIN relations :
              \E n \in 1..Len(new) : new[n].id = id /\ new[n].outputs # <<>>

FileGroups(file) ==
    UNION {{file[b][g] : g \in 1..Len(file[b])} : b \in 1..Len(file)}

\* the ways and the relations that occur in a file
FileWays(file) ==
    UNION {{G.ways[j] : j \in 1..Len(G.ways)} :
           G \in {H \in FileGroups(file) : H.kind = "ways"}}

FileRelations(file) ==
    UNION {{G.relations[j] : j \in 1..Len(G.relations)} :
           G \in {H \in FileGroups(file) : H.kind = "relations"}}

\* the IDs of the way members of a relation
MemberWayIDs(pbfRelation) ==
    {WayMembers(pbfRelation)[n].wayId : n \in 1..Len(WayMembers(pbfRelation))}

\* the read loop is about to hand the multipolygons of a relations group to
\* the script (phase B)
AtPhaseB ==
    /\ AtGroup
    /\ pg.kind = "relations"
    /\ drv.checkedRelations
    /\ ~drv.processedRelations
    /\ Multipolygons(pg.relations) # <<>>

\* C20: when a multipolygon relation is handed to the script in phase B,
\* every member way of the relation that occurs in the same file is in the
\* way store with its complete node list, and no way is in the way store
\* that no relation of the file refers to.
C20_WayStoreInPhaseB ==
    AtPhaseB =>
        /\ \A n \in 1..Len(Multipolygons(pg.relations)) :
              \A pbfWay \in FileWays(inputFiles[drv.file]) :
                  ToWayID(pbfWay.id) \in MemberWayIDs(Multipolygons(pg.relations)[n]) =>
                      /\ WayStore_count(ways, ToWayID(pbfWay.id)) = 1
                      /\ WayStore_at(ways, ToWayID(pbfWay.id)) = DeltaDecode(pbfWay.refs)
        /\ \A w \in DOMAIN ways :
              \E pbfRelation \in FileRelations(inputFiles[drv.file]) :
                  w \in MemberWayIDs(pbfRelation)

\* the relation of the file of a "relation" event that the event is about
EventRelation(e) ==
    CHOOSE pbfRelation \in FileRelations(inputFiles[e.file]) :
        ToWayID(pbfRelation.id) = e.id

\* the "relation" events of the log whose call left output records
EmittedRelations ==
    {n \in 1..Len(log) : log[n].kind = "relation" /\ log[n].outputs # <<>>}

\* the output records that the script left for relation relID, in the order
\* of the calls
RECURSIVE EmittedFor(_, _)
EmittedFor(relID, n) ==
    IF n = 0 THEN <<>>
    ELSE EmittedFor(relID, n - 1)
             \o (IF log[n].kind = "relation" /\ log[n].id = relID
                 THEN log[n].outputs ELSE <<>>)

\* C21: wayRelations maps a way ID to a relation ID if and only if the script
\* left output for that relation and the way is one of its way members, and
\* relationOutputObjects holds under the relation's ID exactly the records
\* the script left for it (and has no other key).
C21_WayRelations ==
    /\ \A n \in EmittedRelations : \A w \in MemberWayIDs(EventRelation(log[n])) :
          /\ w \in DOMAIN wayRelations
          /\ \E k \in 1..Len(wayRelations[w]) : wayRelations[w][k] = log[n].id
    /\ \A w \in DOMAIN wayRelations : \A k \in 1..Len(wayRelations[w]) :
          \E n \in EmittedRelations :
              /\ log[n].id = wayRelations[w][k]
              /\ w \in MemberWayIDs(EventRelation(log[n]))
    /\ DOMAIN relationOutputObjects = {log[n].id : n \in EmittedRelations}
    /\ \A relID \in DOMAIN relationOutputObjects :
          relationOutputObjects[relID] = EmittedFor(relID, Len(log))

\* C21 witness: after phase B of the file with relation 32 (outer way 10,
\* inner way 13), which the script answered with output, both ways map to 32
\* and the record is kept under 32.
C21_Witness ==
    /\ drv.pc = "tiles"
    /\ inputFiles = <<SplitWaysFile>>
    /\ EmittedRelations # {}
    /\ wayRelations = (10 :> <<32>>) @@ (13 :> <<32>>)
    /\ relationOutputObjects = (32 :> <<OutputObject("POLYGON", 32)>>)

\* the step is the third pass over a ways group (phase C)
PhaseCStep ==
    /\ AtGroup
    /\ pg.kind = "ways"
    /\ drv.processedRelations
    /\ drv'.pc = "read"

\* the entries that the step added to the log
NewEvents == SubSeq(log', Len(log) + 1, Len(log'))

\* the way of a "way" event was stored: it had output records or its ID is a
\* key of wayRelations
Stored(e) == e.outputs # <<>> \/ e.id \in DOMAIN wayRelations

\* the ways of the group whose events say they were stored, with the
\* script's answers to them
RECURSIVE StoredWays(_, _)
StoredWays(pgWays, events) ==
    IF pgWays = <<>> THEN <<>>
    ELSE (IF Stored(Head(events))
          THEN <<[pbfWay |-> Head(pgWays), emits |-> Head(events).outputs # <<>>]>>
          ELSE <<>>) \o StoredWays(Tail(pgWays), Tail(events))

\* the third pass over the stored ways alone
ReadStoredWays(sw) ==
    ReadWays(drv.file, [j \in 1..Len(sw) |-> sw[j].pbfWay],
             [j \in 1..Len(sw) |-> sw[j].emits],
             [ways |-> ways, tileIndex |-> tileIndex, log |-> log])

InsertedByStep ==
    LET new == NewEvents
    IN  /\ Len(new) = Len(pg.ways)
        /\ \A j \in 1..Len(new) :
              /\ new[j].kind = "way"
              /\ new[j].id = ToWayID(pg.ways[j].id)
              /\ new[j].nodeVec = DeltaDecode(pg.ways[j].refs)
              /\ new[j].inRelation <=> new[j].id \in DOMAIN wayRelations
              /\ Stored(new[j]) => WayStore_count(ways', new[j].id) = 1
              /\ (/\ Stored(new[j])
                  /\ WayStore_count(ways, new[j].id) = 0
                  /\ \A k \in 1..(j - 1) : new[k].id # new[j].id)
                 => WayStore_at(ways', new[j].id) = new[j].nodeVec
        /\ DOMAIN ways' = DOMAIN ways \cup {new[j].id : j \in {k \in 1..Len(new) : Stored(new[k])}}
        /\ \A w \in DOMAIN ways : ways'[w] = ways[w]
        /\ ways' = ReadStoredWays(StoredWays(pg.ways, new)).ways
        /\ tileIndex' = ReadStoredWays(StoredWays(pg.ways, new)).tileIndex
        /\ (\A j \in 1..Len(new) : ~Stored(new[j])) => (ways' = ways /\ tileIndex' = tileIndex)

WayCalls(f, wayId) ==
    {n \in 1..Len(log) : log[n].file = f /\ log[n].kind = "way" /\ log[n].id = wayId}

\* C23: when a file has been read, every way contained in it was passed to
\* the script's way hook exactly once in phase C, however the ways are
\* divided into blocks and groups.
C23_EveryWayOnce ==
    \A f \in FilesDone : \A pbfWay \in FileWays(inputFiles[f]) :
        Cardinality(WayCalls(f, ToWayID(pbfWay.id))) = 1

\* the dense groups of a file and the nodes in them
FileNodes(file) ==
    UNION {{[id |-> DeltaDecode(G.id)[j], significant |-> G.significant[j]] :
               j \in 1..Len(G.id)} :
           G \in {H \in FileGroups(file) : H.kind = "dense"}}

\* the calls of node_function for the node nodeId while file number f is read
NodeCalls(f, nodeId) ==
    {n \in 1..Len(log) :
        log[n].file = f /\ log[n].kind = "node_function" /\ log[n].id = nodeId}

\* C24: when a file has been read, node_function was called exactly once for
\* each of its nodes with a significant key and never for another node, and
\* a record left by such a call is in no bucket of the tile index but that of
\* the node's own tile.
C24_NodeHookOnce ==
    /\ \A f \in FilesDone : \A node \in FileNodes(inputFiles[f]) :
          Cardinality(NodeCalls(f, node.id)) = IF node.significant THEN 1 ELSE 0
    /\ \A n \in 1..Len(log) :
          log[n].kind = "node_function" =>
              \A t \in DOMAIN tileIndex : \A k \in 1..Len(log[n].outputs) :
                  (\E i \in 1..Len(tileIndex[t]) : tileIndex[t][i] = log[n].outputs[k])
                      => t = latpLon2index(NodeStore_at(nodes, log[n].id), BaseZoom)

\* the bucket of tile t in the tile index m, empty when m has no such key
Bucket(m, t) == IF t \in DOMAIN m THEN m[t] ELSE <<>>

\* the records kept for the relations that wayRelations lists under wayId
RelationRecords(wayId) ==
    LET relIDs == wayRelations[wayId]
        F[n \in 0..Len(relIDs)] ==
            IF n = 0 THEN <<>>
            ELSE F[n - 1] \o Bucket(relationOutputObjects, relIDs[n])
    IN  F[Len(relIDs)]

\* the records a tile of the covered-tile set of a way receives: the way's
\* own and those of its relations
WayRecords(e) ==
    e.outputs \o (IF e.id \in DOMAIN wayRelations THEN RelationRecords(e.id) ELSE <<>>)

\* what tile t receives from the ways of the events, in their order
RECURSIVE Received(_, _)
Received(t, events) ==
    IF events = <<>> THEN <<>>
    ELSE (IF Stored(Head(events)) /\ t \in WayTileList(Head(events).nodeVec)
          THEN WayRecords(Head(events)) ELSE <<>>)
             \o Received(t, Tail(events))

PushedByStep ==
    /\ \A t \in DOMAIN tileIndex \cup DOMAIN tileIndex' :
          Bucket(tileIndex', t) = Bucket(tileIndex, t) \o Received(t, NewEvents)
    /\ \A e \in {NewEvents[j] : j \in 1..Len(NewEvents)} :
          \A t \in WayTileList(e.nodeVec) :
              (Stored(e) /\ WayRecords(e) # <<>>) => t \in DOMAIN tileIndex'

\* C25: a phase C step appends to the bucket of every tile of the
\* covered-tile set of each way it stores the way's output records and, when
\* the way is a key of wayRelations, the records kept for each of its
\* relations; it appends nothing else to any bucket.
C25_RecordsToCoveredTiles == [][PhaseCStep => PushedByStep]_vars

\* the tiles whose bucket holds the record r
TilesHolding(r) ==
    {t \in DOMAIN tileIndex : \E i \in 1..Len(tileIndex[t]) : tileIndex[t][i] = r}

\* C25 witness: after phase C of the sorted file the record of way 11 is in
\* the three tiles the way covers, and the record of relation 30 is in the
\* tiles of its member way 10, which has no record of its own.
C25_Witness ==
    /\ drv.pc = "tiles"
    /\ inputFiles = <<SortedFile>>
    /\ Cardinality(TilesHolding(OutputObject("LINESTRING", 11))) = 3
    /\ TilesHolding(OutputObject("LINESTRING", 11)) = WayTileList(<<1, 5>>)
    /\ TilesHolding(OutputObject("LINESTRING", 10)) = {}
    /\ TilesHolding(OutputObject("POLYGON", 30)) = WayTileList(<<1, 2, 3, 4, 1>>)
    /\ TilesHolding(OutputObject("POLYGON", 30)) # TilesHolding(OutputObject("LINESTRING", 11))

(***************************************************************************)
(* SpecCover: the read loop on a file of one dense group and one way, the  *)
(* way's node list being any list of at most MaxWayNodes of the nodes 1,   *)
(* 5, 6, 8 and 9.                                                          *)
(***************************************************************************)
MaxWayNodes == 3

CoverNodeIDs == {1, 5, 6, 8, 9}

CoverFile(nodeVec) ==
    << <<DenseGroup(<<1, 5, 6, 8, 9>>, {})>>,
       <<WaysGroup(<<PbfWay(40, nodeVec)>>)>> >>

InitCover ==
    /\ inputFiles \in {<<CoverFile(nodeVec)>> :
                          nodeVec \in SeqsUpTo(CoverNodeIDs, MaxWayNodes) \ {<<>>}}
    /\ nodes = EmptyStore
    /\ ways = EmptyStore
    /\ relations = EmptyStore
    /\ hist = NoHist
    /\ sink = <<>>
    /\ call = NoCall
    /\ mpc = NoMpc
    /\ asm = NoAsm
    /\ drv = DrvStart(1)
    /\ wayRelations = <<>>
    /\ relationOutputObjects = <<>>
    /\ tileIndex = <<>>
    /\ log = <<>>

NextCover ==
    \/ OpenFile
    \/ ReadBlock
    \/ EofCheckedRelations
    \/ EofProcessedRelations
    \/ EofBreak
    \/ GroupDense
    \/ GroupSkipWays
    \/ GroupInsertWays
    \/ GroupReadWays
    \/ EndOfBlock

SpecCover == InitCover /\ [][NextCover]_vars

NodeTileX(nodeId) == lon2tilex(NodeStore_at(nodes, nodeId).lon, BaseZoom)
NodeTileY(nodeId) == latp2tiley(NodeStore_at(nodes, nodeId).latp, BaseZoom)

\* the packed tile ID
PackedTile(x, y) == x * 65536 + y

NodeTiles(nodeVec) ==
    {PackedTile(NodeTileX(nodeVec[k]), NodeTileY(nodeVec[k])) : k \in 1..Len(nodeVec)}

\* the tiles of nodes k - 1 and k differ by more than one in X or in Y, or
\* by one in both
TilesApart(nodeVec, k) ==
    LET dx == Abs(NodeTileX(nodeVec[k]) - NodeTileX(nodeVec[k - 1]))
        dy == Abs(NodeTileY(nodeVec[k]) - NodeTileY(nodeVec[k - 1]))
    IN  dx > 1 \/ dy > 1 \/ (dx = 1 /\ dy = 1)

\* what insertIntermediateTiles adds for nodes k - 1 and k
HelperTiles(nodeVec, k) ==
    insertIntermediateTiles({},
        Max(Abs(NodeTileX(nodeVec[k]) - NodeTileX(nodeVec[k - 1])),
            Abs(NodeTileY(nodeVec[k]) - NodeTileY(nodeVec[k - 1]))),
        NodeStore_at(nodes, nodeVec[k - 1]), NodeStore_at(nodes, nodeVec[k]), BaseZoom)

\* the nodes lie in one row of tiles, in X from lowest to lowest + 2
ThreeInARow(nodeVec) ==
    /\ \A k \in 1..Len(nodeVec) : NodeTileY(nodeVec[k]) = NodeTileY(nodeVec[1])
    /\ \E lowest \in {NodeTileX(nodeVec[k]) : k \in 1..Len(nodeVec)} :
          /\ \A k \in 1..Len(nodeVec) :
                NodeTileX(nodeVec[k]) \in lowest..(lowest + 2)
          /\ \E k \in 1..Len(nodeVec) : NodeTileX(nodeVec[k]) = lowest + 2

CoveredTiles(e, tiles) ==
    /\ NodeTiles(e.nodeVec) \subseteq tiles.tilelist
    /\ tiles.calls = {k \in 2..Len(e.nodeVec) : TilesApart(e.nodeVec, k)}
    /\ tiles.tilelist = NodeTiles(e.nodeVec)
           \cup UNION {HelperTiles(e.nodeVec, k) :
                          k \in {j \in 2..Len(e.nodeVec) : TilesApart(e.nodeVec, j)}}
    /\ tiles.calls = {} => tiles.tilelist = NodeTiles(e.nodeVec)
    /\ ThreeInARow(e.nodeVec) => Cardinality(tiles.tilelist) = 3
    /\ Cardinality(NodeTiles(e.nodeVec)) = 1 => Cardinality(tiles.tilelist) = 1
    /\ e.outputs # <<>> => TilesHolding(e.outputs[1]) = tiles.tilelist

\* C26: the covered-tile set of a way holds the packed tile ID of every node
\* of the way; insertIntermediateTiles is called for two consecutive nodes
\* exactly when their tiles differ by more than one in X or Y or by one in
\* both; pairs in the same or in edge-adjacent tiles add no tile but their
\* own; a way across three tiles of a row is in exactly three buckets and a
\* way inside one tile in exactly one.
C26_CoveredTileSet ==
    \A n \in 1..Len(log) :
        log[n].kind = "way" => CoveredTiles(log[n], WayTiles(log[n].nodeVec))

\* C26 witness: the way from node 5 to node 1, two tiles apart in a row, had
\* output; the helper was called for the pair and the record is in three
\* buckets.
C26_Witness ==
    /\ drv.pc = "tiles"
    /\ \E n \in 1..Len(log) :
          /\ log[n].kind = "way"
          /\ log[n].nodeVec = <<5, 1>>
          /\ log[n].outputs # <<>>
          /\ WayTiles(<<5, 1>>).calls = {2}
          /\ ThreeInARow(<<5, 1>>)
          /\ Cardinality(TilesHolding(log[n].outputs[1])) = 3

(***************************************************************************)
(* main (tilemaker.cpp): writing the tiles.  An OutputObject here has its  *)
(* layer, geomType, objectID and attributes; attributes are numbers, one   *)
(* for each different set of tags.  Tile indexes are below 2^31 (tileX     *)
(* below 2^15), where the program has 32 bits.                             *)
(***************************************************************************)
\* a loop body that leaves out the mask: tiley = index / pow(2, d)
ParentIndex_noMask(index, d) ==
    LET tilex == (index \div 65536) \div (2 ^ d)
        tiley == index \div (2 ^ d)
    IN  tilex * 65536 + tiley

\* newIndex of a base-zoom tile index, d being baseZoom - zoom: the quotients
\* are doubles converted to uint
ParentIndex(index, d) ==
    LET tilex == (index \div 65536) \div (2 ^ d)
        tiley == (index % 65536) \div (2 ^ d)
    IN  tilex * 65536 + tiley

(***************************************************************************)
(* SpecParent: newIndex for the tiles (x, y) of TileXs and TileYs and the  *)
(* zoom differences up to MaxZoomDiff.                                     *)
(***************************************************************************)
MaxZoomDiff == 15

TileXs == {0, 1, 2, 3, 6, 255, 256, 21845, 32767}
TileYs == {0, 1, 2, 3, 5, 255, 256, 32768, 43690, 65535}

InitParent ==
    /\ nodes = EmptyStore
    /\ ways = EmptyStore
    /\ relations = EmptyStore
    /\ hist = NoHist
    /\ sink = <<>>
    /\ call = NoCall
    /\ mpc = NoMpc
    /\ asm = NoAsm
    /\ inputFiles = <<>>
    /\ wayRelations = <<>>
    /\ relationOutputObjects = <<>>
    /\ tileIndex = <<>>
    /\ log = <<>>
    /\ \E x \in TileXs, y \in TileYs, d \in 0..MaxZoomDiff :
          drv = [pc |-> "index", x |-> x, y |-> y, d |-> d,
                 index |-> x * 65536 + y]

ParentTile ==
    /\ drv.pc = "index"
    /\ drv' = [drv EXCEPT !.pc = "newIndex", !.index = ParentIndex(drv.index, drv.d)]
    /\ UNCHANGED <<nodes, ways, relations, wayRelations, relationOutputObjects,
                   tileIndex, log, otherVars>>

NextParent == ParentTile

SpecParent == InitParent /\ [][NextParent]_vars

\* x >> d, one bit at a time
RECURSIVE ShiftRight(_, _)
ShiftRight(x, d) == IF d = 0 THEN x ELSE ShiftRight(x \div 2, d - 1)

\* a | b, bit by bit
RECURSIVE BitOr(_, _)
BitOr(a, b) ==
    IF a = 0 THEN b
    ELSE IF b = 0 THEN a
    ELSE 2 * BitOr(a \div 2, b \div 2) + (IF a % 2 = 1 \/ b % 2 = 1 THEN 1 ELSE 0)

\* packed(x, y) = (x << 16) | y
Packed(x, y) == BitOr(x * 65536, y)

\* C27: for every tile pair (x, y) and every zoom difference d >= 0 the
\* parent tile ID computed from packed(x, y) is packed(x >> d, y >> d).
C27_ParentIndex ==
    drv.pc = "newIndex" =>
        drv.index = Packed(ShiftRight(drv.x, drv.d), ShiftRight(drv.y, drv.d))

\* C27 witness: the parent three zooms up of the tile (21845, 43690), whose
\* coordinates have bits that the shift drops
C27_Witness ==
    /\ drv.pc = "newIndex"
    /\ drv.x = 21845
    /\ drv.y = 43690
    /\ drv.d = 3
    /\ drv.index = 2730 * 65536 + 5461

\* an OutputObject with its attributes
OO(layer, geomType, objectID, attributes) ==
    [layer |-> layer, geomType |-> geomType, objectID |-> objectID,
     attributes |-> attributes]

\* the place of a geometry type in the enumeration
GeomRank(geomType) ==
    CASE geomType = "POINT" -> 0
      [] geomType = "LINESTRING" -> 1
      [] geomType = "POLYGON" -> 2
      [] OTHER -> 3

\* operator< of OutputObject: by layer, then attributes, then geometry type,
\* then objectID
OOLess(a, b) ==
    \/ a.layer < b.layer
    \/ /\ a.layer = b.layer
       /\ \/ a.attributes < b.attributes
          \/ /\ a.attributes = b.attributes
             /\ \/ GeomRank(a.geomType) < GeomRank(b.geomType)
                \/ /\ GeomRank(a.geomType) = GeomRank(b.geomType)
                   /\ a.objectID < b.objectID

\* operator== of OutputObject
OOEqual(a, b) ==
    /\ a.layer = b.layer
    /\ a.attributes = b.attributes
    /\ a.geomType = b.geomType
    /\ a.objectID = b.objectID

\* std::sort with operator<
RECURSIVE SortOO(_)
SortOO(ooset) ==
    IF ooset = <<>> THEN <<>>
    ELSE LET rest == SortOO(Tail(ooset))
             before == {i \in 1..Len(rest) : OOLess(rest[i], Head(ooset))}
         IN  SubSeq(rest, 1, Cardinality(before)) \o <<Head(ooset)>>
                 \o SubSeq(rest, Cardinality(before) + 1, Len(rest))

\* ooset.erase(unique(...), end): of each run of equal elements the first
RECURSIVE UniqueOO(_)
UniqueOO(ooset) ==
    IF Len(ooset) <= 1 THEN ooset
    ELSE IF OOEqual(ooset[1], ooset[2]) THEN UniqueOO(<<ooset[1]>> \o SubSeq(ooset, 3, Len(ooset)))
    ELSE <<ooset[1]>> \o UniqueOO(Tail(ooset))

\* a bucket that is sorted and keeps its duplicates
SortUnique_noUnique(ooset) == SortOO(ooset)

\* sort, then unique and erase
SortUnique(ooset) == UniqueOO(SortOO(ooset))

\* the keys of a map in the order of its iterator
RECURSIVE KeysInOrder(_)
KeysInOrder(S) ==
    IF S = {} THEN <<>>
    ELSE LET least == CHOOSE k \in S : \A other \in S : k <= other
         IN  <<least>> \o KeysInOrder(S \ {least})

\* generatedIndex after the loop over tileIndex, before its buckets are
\* sorted; d is baseZoom - zoom
GenerateIndex(t, d) ==
    LET keys == KeysInOrder(DOMAIN t)
        F[n \in 0..Len(keys)] ==
            IF n = 0 THEN <<>>
            ELSE MapPushBack(F[n - 1], ParentIndex(keys[n], d), t[keys[n]])
    IN  F[Len(keys)]

\* every bucket of a map sorted and made unique
SortBuckets(t) == [index \in DOMAIN t |-> SortUnique(t[index])]

(***************************************************************************)
(* SpecZoom: the loop over the zoom levels, from a tile index of at most   *)
(* two base-zoom tiles with buckets of at most MaxBucket records, in any   *)
(* order and with repetitions.  The writing of the tiles of one zoom level *)
(* is one step; SpecEmit has the loop over the records of a tile.          *)
(***************************************************************************)
MaxBucket == 2

ZoomTiles == {1, 2 * 65536 + 1}

ZoomRecords == {OO(0, "POINT", 9, 2), OO(0, "POLYGON", 3, 1), OO(1, "POINT", 1, 1)}

ZoomIndexes ==
    UNION {[tiles -> SeqsUpTo(ZoomRecords, MaxBucket) \ {<<>>}] :
              tiles \in SUBSET ZoomTiles}

InitZoom ==
    /\ nodes = EmptyStore
    /\ ways = EmptyStore
    /\ relations = EmptyStore
    /\ hist = NoHist
    /\ sink = <<>>
    /\ call = NoCall
    /\ mpc = NoMpc
    /\ asm = NoAsm
    /\ inputFiles = <<>>
    /\ wayRelations = <<>>
    /\ relationOutputObjects = <<>>
    /\ log = <<>>
    /\ tileIndex \in ZoomIndexes
    /\ \E startZoom \in 0..BaseZoom, endZoom \in 0..BaseZoom :
          drv = [pc |-> "zoom", zoom |-> startZoom, startZoom |-> startZoom,
                 endZoom |-> endZoom, base |-> tileIndex, ptr |-> "none",
                 generatedIndex |-> <<>>, written |-> <<>>]

\* what tileIndexPtr points to
TileMap == IF drv.ptr = "tileIndex" THEN tileIndex ELSE drv.generatedIndex

\* zoom == baseZoom: the buckets of tileIndex are sorted in place
ZoomSortBase ==
    /\ drv.pc = "zoom"
    /\ drv.zoom <= drv.endZoom
    /\ drv.zoom = BaseZoom
    /\ tileIndex' = SortBuckets(tileIndex)
    /\ drv' = [drv EXCEPT !.pc = "tiles", !.ptr = "tileIndex", !.generatedIndex = <<>>]
    /\ UNCHANGED <<nodes, ways, relations, wayRelations, relationOutputObjects,
                   log, otherVars>>

\* another zoom: generatedIndex is filled from tileIndex and sorted
ZoomGenerate ==
    /\ drv.pc = "zoom"
    /\ drv.zoom <= drv.endZoom
    /\ drv.zoom # BaseZoom
    /\ drv' = [drv EXCEPT !.pc = "tiles", !.ptr = "generatedIndex",
                          !.generatedIndex =
                              SortBuckets(GenerateIndex(tileIndex, BaseZoom - drv.zoom))]
    /\ UNCHANGED <<nodes, ways, relations, wayRelations, relationOutputObjects,
                   tileIndex, log, otherVars>>

\* the loop through the tiles of the zoom level
WriteTiles ==
    /\ drv.pc = "tiles"
    /\ drv' = [drv EXCEPT !.pc = "zoom", !.zoom = drv.zoom + 1,
                          !.written = Append(drv.written,
                                          [zoom |-> drv.zoom,
                                           tiles |-> KeysInOrder(DOMAIN TileMap)])]
    /\ UNCHANGED <<nodes, ways, relations, wayRelations, relationOutputObjects,
                   tileIndex, log, otherVars>>

\* the loop over the zoom levels ends
ZoomsDone ==
    /\ drv.pc = "zoom"
    /\ drv.zoom > drv.endZoom
    /\ drv' = [drv EXCEPT !.pc = "done"]
    /\ UNCHANGED <<nodes, ways, relations, wayRelations, relationOutputObjects,
                   tileIndex, log, otherVars>>

NextZoom ==
    \/ ZoomSortBase
    \/ ZoomGenerate
    \/ WriteTiles
    \/ ZoomsDone

SpecZoom == InitZoom /\ [][NextZoom]_vars

Elems(s) == {s[i] : i \in 1..Len(s)}

\* the parent at zoom of a base-zoom tile, by shifts
ParentAt(index, zoom) ==
    Packed(ShiftRight(index \div 65536, BaseZoom - zoom),
           ShiftRight(index % 65536, BaseZoom - zoom))

\* C28: at every zoom from startZoom to endZoom, when the tiles of the zoom
\* are about to be written, every bucket of the zoom's tile map is sorted
\* and has no record twice, and a record is in the bucket of tile T if and
\* only if it is in the bucket of a base-zoom tile whose parent at the zoom
\* is T.
C28_ZoomMap ==
    drv.pc = "tiles" =>
        /\ \A t \in DOMAIN TileMap :
              \A i, j \in 1..Len(TileMap[t]) :
                  i < j => OOLess(TileMap[t][i], TileMap[t][j])
        /\ \A t \in DOMAIN TileMap \cup {ParentAt(b, drv.zoom) : b \in DOMAIN drv.base} :
              /\ t \in DOMAIN TileMap
              /\ Elems(TileMap[t])
                     = UNION {Elems(drv.base[b]) :
                                 b \in {c \in DOMAIN drv.base : ParentAt(c, drv.zoom) = t}}

\* C28 witness: at zoom 0 the buckets of the two base tiles, which hold a
\* record in common and are not sorted, are one sorted bucket of three
\* records
C28_Witness ==
    /\ drv.pc = "tiles"
    /\ drv.zoom = 0
    /\ drv.zoom < BaseZoom
    /\ drv.base = (1 :> <<OO(0, "POINT", 9, 2), OO(0, "POLYGON", 3, 1)>>)
                    @@ ((2 * 65536 + 1) :> <<OO(1, "POINT", 1, 1), OO(0, "POINT", 9, 2)>>)
    /\ TileMap = (0 :> <<OO(0, "POLYGON", 3, 1), OO(0, "POINT", 9, 2), OO(1, "POINT", 1, 1)>>)

(***************************************************************************)
(* SpecEmit: the loops through the layers and the output objects of one    *)
(* tile, for a sorted bucket without repetitions of at most MaxSlice       *)
(* records.  buildWayGeometry throws for the records whose objectID is in  *)
(* drv.throwing.  A geometry is the set of the objectIDs it was made from; *)
(* the records of EmptyInTile have no geometry inside the tile.  Layers 0  *)
(* and 1 are written to one layer of the tile, layer 2 to another; layer 2 *)
(* is written at baseZoom only.  No clipping box is configured, includeID  *)
(* is set.                                                                 *)
(***************************************************************************)
MaxSlice == 4

LayerOrder == << <<0, 1>>, <<2>> >>

\* osmObject.layers: minzoom and maxzoom of each layer
Layers ==
    [layerNum \in 0..2 |->
        [minzoom |-> IF layerNum = 2 THEN BaseZoom ELSE 0, maxzoom |-> BaseZoom]]

EmitRecords ==
    {OO(0, "POINT", 5, 1), OO(0, "LINESTRING", 4, 1), OO(0, "POLYGON", 1, 1),
     OO(0, "POLYGON", 2, 1), OO(0, "POLYGON", 3, 1), OO(1, "POLYGON", 6, 1),
     OO(2, "LINESTRING", 7, 1), OO(2, "LINESTRING", 8, 1)}

EmptyInTile == {2}

\* the geometry of a record, clipped to the tile
Geom(oo) == IF oo.objectID \in EmptyInTile THEN {} ELSE {oo.objectID}

\* the geometry types that the merging loops are for
Mergeable(gTyp) ==
    gTyp \in {"POLYGON", "CACHED_POLYGON", "LINESTRING", "CACHED_LINESTRING"}

\* equal_range of ooList by layer: the first position of layerNum and the
\* position behind its last
EqualRange(ooList, layerNum) ==
    [first |-> 1 + Cardinality({i \in 1..Len(ooList) : ooList[i].layer < layerNum}),
     second |-> 1 + Cardinality({i \in 1..Len(ooList) : ooList[i].layer <= layerNum})]

\* the while loop of the merging, from the record at jt whose geometry is
\* in gAcc: jt and g when it ends, or when buildWayGeometry throws
RECURSIVE MergeFrom(_, _, _, _, _, _)
MergeFrom(ooList, second, throwing, gTyp, jt, gAcc) ==
    IF /\ jt + 1 # second
       /\ ooList[jt + 1].geomType = gTyp
       /\ ooList[jt + 1].attributes = ooList[jt].attributes
    THEN IF ooList[jt + 1].objectID \in throwing
         THEN [jt |-> jt + 1, thrown |-> TRUE, g |-> {}]
         ELSE MergeFrom(ooList, second, throwing, gTyp, jt + 1,
                        gAcc \cup Geom(ooList[jt + 1]))
    ELSE [jt |-> jt, thrown |-> FALSE, g |-> gAcc]

\* the try block up to add_features
TryWay(ooList, second, throwing, jt) ==
    IF ooList[jt].objectID \in throwing
    THEN [jt |-> jt, thrown |-> TRUE, g |-> {}]
    ELSE IF Mergeable(ooList[jt].geomType)
    THEN MergeFrom(ooList, second, throwing, ooList[jt].geomType, jt, Geom(ooList[jt]))
    ELSE [jt |-> jt, thrown |-> FALSE, g |-> Geom(ooList[jt])]

\* a feature of the tile: its geometry, the attributes and the ID written
\* to it, and the positions in ooList of the records it was made from
Feature(g, oo, from) ==
    [geometry |-> g, attributes |-> oo.attributes, id |-> oo.objectID, from |-> from]

InitEmit ==
    /\ nodes = (5 :> [latp |-> 10, lon |-> 10])
    /\ ways = EmptyStore
    /\ relations = EmptyStore
    /\ hist = NoHist
    /\ sink = <<>>
    /\ call = NoCall
    /\ mpc = NoMpc
    /\ asm = NoAsm
    /\ inputFiles = <<>>
    /\ wayRelations = <<>>
    /\ relationOutputObjects = <<>>
    /\ tileIndex = <<>>
    /\ log = <<>>
    /\ \E S \in {T \in SUBSET EmitRecords : Cardinality(T) <= MaxSlice},
          zoom \in {BaseZoom - 1, BaseZoom} :
          \E throwing \in SUBSET {oo.objectID : oo \in {r \in S : r.geomType # "POINT"}},
             ooList \in {s \in [1..Cardinality(S) -> S] :
                            \A i, j \in 1..Cardinality(S) : i < j => OOLess(s[i], s[j])} :
              drv = [pc |-> "group", zoom |-> zoom, ooList |-> ooList,
                     throwing |-> throwing, g |-> 1, m |-> 0, jt |-> 0, second |-> 0,
                     layers |-> <<>>, thrown |-> {}, consumed |-> <<>>, tile |-> <<>>]

\* the loop through the layer groups: tile.add_layers()
GroupBegin ==
    /\ drv.pc = "group"
    /\ drv.g <= Len(LayerOrder)
    /\ drv' = [drv EXCEPT !.pc = "layer", !.m = 1,
                          !.layers = Append(@, [features |-> <<>>, name |-> "", version |-> 0])]
    /\ UNCHANGED <<nodes, ways, relations, wayRelations, relationOutputObjects,
                   tileIndex, log, otherVars>>

AtLayer == drv.pc = "layer" /\ drv.m <= Len(LayerOrder[drv.g])
layerNum == LayerOrder[drv.g][drv.m]
InZoom(ld, zoom) == ~(zoom < ld.minzoom \/ zoom > ld.maxzoom)

\* a layer that is not written at this zoom
LayerSkip ==
    /\ AtLayer
    /\ ~InZoom(Layers[layerNum], drv.zoom)
    /\ drv' = [drv EXCEPT !.m = drv.m + 1]
    /\ UNCHANGED <<nodes, ways, relations, wayRelations, relationOutputObjects,
                   tileIndex, log, otherVars>>

\* the range of the layer in ooList
LayerBegin ==
    /\ AtLayer
    /\ InZoom(Layers[layerNum], drv.zoom)
    /\ drv' = [drv EXCEPT !.pc = "object",
                          !.jt = EqualRange(drv.ooList, layerNum).first,
                          !.second = EqualRange(drv.ooList, layerNum).second]
    /\ UNCHANGED <<nodes, ways, relations, wayRelations, relationOutputObjects,
                   tileIndex, log, otherVars>>

AtObject == drv.pc = "object" /\ drv.jt # drv.second

\* the features of the layer group being written, with one more
AddFeature(layers, feature) ==
    [layers EXCEPT ![Len(layers)].features = Append(@, feature)]

\* a POINT
EmitPoint ==
    /\ AtObject
    /\ drv.ooList[drv.jt].geomType = "POINT"
    /\ NodeStore_count(nodes, drv.ooList[drv.jt].objectID) = 1
    /\ drv' = [drv EXCEPT !.jt = drv.jt + 1,
                          !.layers = AddFeature(@, Feature({drv.ooList[drv.jt].objectID},
                                                     drv.ooList[drv.jt], {drv.jt})),
                          !.consumed = Append(@, drv.jt..drv.jt)]
    /\ UNCHANGED <<nodes, ways, relations, wayRelations, relationOutputObjects,
                   tileIndex, log, otherVars>>

\* what the try block and its catch leave of drv
WayDone(r) ==
    [drv EXCEPT !.jt = r.jt + 1,
                !.layers = IF r.thrown \/ r.g = {} THEN @
                           ELSE AddFeature(@, Feature(r.g, drv.ooList[r.jt], drv.jt..r.jt)),
                !.thrown = IF r.thrown THEN @ \cup {r.jt} ELSE @,
                !.consumed = Append(@, drv.jt..r.jt)]

\* any other geometry type: the try block
EmitWay ==
    /\ AtObject
    /\ drv.ooList[drv.jt].geomType # "POINT"
    /\ drv' = WayDone(TryWay(drv.ooList, drv.second, drv.throwing, drv.jt))
    /\ UNCHANGED <<nodes, ways, relations, wayRelations, relationOutputObjects,
                   tileIndex, log, otherVars>>

\* the loop through the output objects of the layer ends
LayerEnd ==
    /\ drv.pc = "object"
    /\ drv.jt = drv.second
    /\ drv' = [drv EXCEPT !.pc = "layer", !.m = drv.m + 1]
    /\ UNCHANGED <<nodes, ways, relations, wayRelations, relationOutputObjects,
                   tileIndex, log, otherVars>>

\* the layer group ends: it gets its tags, or is removed when it is empty
GroupEnd ==
    /\ drv.pc = "layer"
    /\ drv.m > Len(LayerOrder[drv.g])
    /\ drv' = [drv EXCEPT !.pc = "group", !.g = drv.g + 1,
                          !.layers =
                              IF @[Len(@)].features # <<>>
                              THEN [@ EXCEPT ![Len(@)].name = "layer", ![Len(@)].version = 1]
                              ELSE SubSeq(@, 1, Len(@) - 1)]
    /\ UNCHANGED <<nodes, ways, relations, wayRelations, relationOutputObjects,
                   tileIndex, log, otherVars>>

\* the tile is serialized and written
WriteTile ==
    /\ drv.pc = "group"
    /\ drv.g > Len(LayerOrder)
    /\ drv' = [drv EXCEPT !.pc = "written", !.tile = <<drv.layers>>]
    /\ UNCHANGED <<nodes, ways, relations, wayRelations, relationOutputObjects,
                   tileIndex, log, otherVars>>

NextEmit ==
    \/ GroupBegin
    \/ LayerSkip
    \/ LayerBegin
    \/ EmitPoint
    \/ EmitWay
    \/ LayerEnd
    \/ GroupEnd
    \/ WriteTile

SpecEmit == InitEmit /\ [][NextEmit]_vars

\* the positions of ooList whose layer is written at the zoom of the tile
WrittenPositions ==
    {p \in 1..Len(drv.ooList) : InZoom(Layers[drv.ooList[p].layer], drv.zoom)}

\* the maximal run of p: the consecutive records around p with its layer,
\* its geometry type and its attributes
RunOf(p) ==
    LET alike(q) == /\ drv.ooList[q].layer = drv.ooList[p].layer
                    /\ drv.ooList[q].geomType = drv.ooList[p].geomType
                    /\ drv.ooList[q].attributes = drv.ooList[p].attributes
    IN  {q \in 1..Len(drv.ooList) :
            \A i \in (IF q < p THEN q ELSE p)..(IF q < p THEN p ELSE q) : alike(i)}

\* the features of the tile
TileFeatures ==
    UNION {{drv.layers[l].features[i] : i \in 1..Len(drv.layers[l].features)} :
           l \in 1..Len(drv.layers)}

\* the features made from a record of R
FeaturesOf(R) == {f \in TileFeatures : f.from \cap R # {}}

\* buildWayGeometry returns for the record at p
Builds(p) == drv.ooList[p].objectID \notin drv.throwing

\* C29: within one tile and one layer every maximal run of consecutive
\* polygon or linestring records with the same geometry type and the same
\* attributes makes at most one feature, whose geometry is the union of the
\* geometries of the run and whose attributes are those of the run; every
\* record of the slice is consumed exactly once; a POINT is never merged.
C29_RunsMerged ==
    drv.pc = "written" =>
        \A p \in WrittenPositions :
            /\ Cardinality({n \in 1..Len(drv.consumed) : p \in drv.consumed[n]}) = 1
            /\ IF drv.ooList[p].geomType = "POINT"
               THEN FeaturesOf({p})
                        = {Feature({drv.ooList[p].objectID}, drv.ooList[p], {p})}
               ELSE /\ Cardinality(FeaturesOf(RunOf(p))) <= 1
                    /\ \A f \in FeaturesOf(RunOf(p)) :
                          /\ f.geometry = UNION {Geom(drv.ooList[q]) :
                                                    q \in {r \in RunOf(p) : Builds(r)}}
                          /\ f.attributes = drv.ooList[p].attributes

\* C30: when geometry construction throws for one record of the tile, every
\* other record of a written layer whose geometry builds and is not empty
\* is in a feature of the tile, no feature is left without geometry, and
\* the tile is written with the layers as they are.
C30_OnlyThrowerSkipped ==
    (drv.pc = "written" /\ Cardinality(drv.thrown) = 1) =>
        /\ \A p \in WrittenPositions :
              (Builds(p) /\ Geom(drv.ooList[p]) # {}) =>
                  \E f \in TileFeatures : p \in f.from
        /\ \A f \in TileFeatures : f.geometry # {} /\ f.from # {}
        /\ drv.tile = <<drv.layers>>

(***************************************************************************)
(* SpecGet: any sequence of insert_back, clear, at and count on the three  *)
(* stores.  at and count are const member functions: they leave the        *)
(* stores alone; hist records what count returned and whether at raised    *)
(* NotFound, with the three stores before the call.  drv keeps, for each   *)
(* store, the IDs insert_back was called with since the last clear, and    *)
(* the IDs it was ever called with.                                        *)
(***************************************************************************)
Stores == {"nodes", "ways", "relations"}

StoreIDs(s) ==
    CASE s = "nodes" -> StoreNodeIDs
      [] s = "ways" -> StoreWayIDs
      [] OTHER -> StoreRelIDs

StoreValues(s) ==
    CASE s = "nodes" -> StoreCoords
      [] s = "ways" -> StoreNodeVecs
      [] OTHER -> StoreWayVecs

\* the IDs looked up: those inserted, and one that never is
LookupIDs == {1, 2, 3, HighWayID}

StoreAt(s, i) ==
    CASE s = "nodes" -> NodeStore_at(nodes, i)
      [] s = "ways" -> WayStore_at(ways, i)
      [] OTHER -> RelationStore_at(relations, i)

StoreCount(s, i) ==
    CASE s = "nodes" -> NodeStore_count(nodes, i)
      [] s = "ways" -> WayStore_count(ways, i)
      [] OTHER -> RelationStore_count(relations, i)

InitGet ==
    /\ nodes = EmptyStore
    /\ ways = EmptyStore
    /\ relations = EmptyStore
    /\ hist = NoHist
    /\ sink = <<>>
    /\ call = NoCall
    /\ mpc = NoMpc
    /\ asm = NoAsm
    /\ inputFiles = <<>>
    /\ drv = [pc |-> "store",
              inserted |-> [s \in Stores |-> {}],
              ever |-> [s \in Stores |-> {}]]
    /\ wayRelations = EmptyStore
    /\ relationOutputObjects = EmptyStore
    /\ tileIndex = EmptyStore
    /\ log = <<>>

GetInsert ==
    \E s \in Stores :
        \E i \in StoreIDs(s), v \in StoreValues(s) :
            /\ nodes' = IF s = "nodes" THEN NodeStore_insert_back(nodes, i, v) ELSE nodes
            /\ ways' = IF s = "ways" THEN WayStore_insert_back(ways, i, v) ELSE ways
            /\ relations' = IF s = "relations"
                            THEN RelationStore_insert_back(relations, i, v)
                            ELSE relations
            /\ hist' = [store |-> s, op |-> "insert", k |-> i, v |-> v, pre |-> <<>>]
            /\ drv' = [drv EXCEPT !.inserted[s] = @ \cup {i}, !.ever[s] = @ \cup {i}]
            /\ UNCHANGED <<sink, call, mpc, asm, inputFiles, wayRelations,
                           relationOutputObjects, tileIndex, log>>

GetClear ==
    \E s \in Stores :
        /\ nodes' = IF s = "nodes" THEN NodeStore_clear(nodes) ELSE nodes
        /\ ways' = IF s = "ways" THEN WayStore_clear(ways) ELSE ways
        /\ relations' = IF s = "relations" THEN RelationStore_clear(relations)
                        ELSE relations
        /\ hist' = [store |-> s, op |-> "clear", k |-> 0, v |-> <<>>, pre |-> <<>>]
        /\ drv' = [drv EXCEPT !.inserted[s] = {}]
        /\ UNCHANGED <<sink, call, mpc, asm, inputFiles, wayRelations,
                       relationOutputObjects, tileIndex, log>>

\* whether a call ended with the NotFound exception instead of a value
Raised(v) == ToString(v) = ToString(NotFound)

GetAt ==
    \E s \in Stores, i \in LookupIDs :
        /\ hist' = [store |-> s, op |-> "at", k |-> i, v |-> Raised(StoreAt(s, i)),
                    pre |-> <<nodes, ways, relations>>]
        /\ UNCHANGED <<nodes, ways, relations, sink, call, mpc, asm, drvVars>>

GetCount ==
    \E s \in Stores, i \in LookupIDs :
        /\ hist' = [store |-> s, op |-> "count", k |-> i, v |-> StoreCount(s, i),
                    pre |-> <<nodes, ways, relations>>]
        /\ UNCHANGED <<nodes, ways, relations, sink, call, mpc, asm, drvVars>>

NextGet ==
    \/ GetInsert
    \/ GetClear
    \/ GetAt
    \/ GetCount

SpecGet == InitGet /\ [][NextGet]_vars

\* C32: in each store, at(id) for an ID that insert_back was not called with
\* since the last clear (never, or only before it) raises NotFound and leaves
\* the three stores as they were, at(id) raises for no other ID, and
\* count(id) > 0 is false for exactly those IDs.
C32_AbsentGet ==
    /\ \A s \in Stores, i \in LookupIDs :
          (StoreCount(s, i) > 0) <=> (i \in drv.inserted[s])
    /\ hist.op = "at" =>
          /\ hist.v <=> (hist.k \notin drv.inserted[hist.store])
          /\ <<nodes, ways, relations>> = hist.pre
    /\ hist.op = "count" =>
          /\ (hist.v = 0) <=> (hist.k \notin drv.inserted[hist.store])
          /\ hist.v \in {0, 1}
          /\ <<nodes, ways, relations>> = hist.pre

\* at raised for an ID that was inserted before the last clear of the store,
\* while another store still holds that ID
C32_Witness ==
    /\ hist.op = "at"
    /\ hist.store = "ways"
    /\ hist.k = HighWayID
    /\ hist.v
    /\ HighWayID \in drv.ever["ways"]
    /\ WayStore_count(ways, 1) = 1
    /\ NodeStore_count(nodes, 1) = 1

(***************************************************************************)
(* SpecMain: main() from the command line to its return.  drv holds the    *)
(* zoom settings of the JSON configuration and the output mode, which are  *)
(* fixed by the invocation, main's position, what it has done so far (the  *)
(* primitive blocks read, the tiles written, the output container) and,    *)
(* once it has returned, its return value and the line it printed.  What   *)
(* else the environment decides (whether a file opens, whether the JSON    *)
(* parses, what the script defines) is chosen at the step that asks.       *)
(***************************************************************************)
\* the zoom settings range over 0..MaxZoomSetting
MaxZoomSetting == 2

\* the values of settings.compress, the last one being none the code knows
CompressOpts == {"gzip", "deflate", "none", "", "zip"}

\* the check of the zoom settings that lets every configuration pass
ZoomsValid_always(baseZoom, endZoom) == TRUE

\* "Check config is valid": maxzoom must be the same or smaller than basezoom
ZoomsValid(baseZoom, endZoom) == ~(endZoom > baseZoom)

InitMain ==
    /\ nodes = EmptyStore
    /\ ways = EmptyStore
    /\ relations = EmptyStore
    /\ hist = NoHist
    /\ sink = <<>>
    /\ call = NoCall
    /\ mpc = NoMpc
    /\ asm = NoAsm
    /\ inputFiles = <<>>
    /\ \E baseZoom \in 0..MaxZoomSetting, startZoom \in 0..MaxZoomSetting,
          endZoom \in 0..MaxZoomSetting, sqlite \in BOOLEAN :
          drv = [pc |-> "options", baseZoom |-> baseZoom, startZoom |-> startZoom,
                 endZoom |-> endZoom, sqlite |-> sqlite, hasClippingBox |-> FALSE,
                 headerRead |-> FALSE, shapesRead |-> FALSE, blocksRead |-> 0,
                 tilesWritten |-> 0, mbtilesOpen |-> FALSE,
                 code |-> 0, printed |-> ""]
    /\ wayRelations = EmptyStore
    /\ relationOutputObjects = EmptyStore
    /\ tileIndex = EmptyStore
    /\ log = <<>>

\* return code from main, after line was printed
Return(code, line) == [drv EXCEPT !.pc = "returned", !.code = code, !.printed = line]

MainStep(pc, next) ==
    /\ drv.pc = pc
    /\ drv' = next
    /\ UNCHANGED <<nodes, ways, relations, wayRelations, relationOutputObjects,
                   tileIndex, log, otherVars>>

\* Read command-line options
ReadOptions ==
    \E help \in BOOLEAN, output \in BOOLEAN, input \in BOOLEAN :
        MainStep("options",
            IF help THEN Return(1, "show help message")
            ELSE IF ~output
            THEN Return(-1, "You must specify an output file or directory.")
            ELSE IF ~input
            THEN Return(-1, "You must specify at least one source .osm.pbf file.")
            ELSE [drv EXCEPT !.pc = "bbox"])

\* Read bounding box from first .pbf
ReadBoundingBox ==
    \E opens \in BOOLEAN, has_bbox \in BOOLEAN :
        MainStep("bbox",
            IF ~opens THEN Return(-1, "Couldn't open .pbf file")
            ELSE [drv EXCEPT !.pc = "config", !.headerRead = TRUE,
                             !.hasClippingBox = has_bbox])

\* Read JSON config: the try block and its catch
ReadConfig ==
    \E parses \in BOOLEAN, found \in BOOLEAN, compressIsString \in BOOLEAN,
       compressOpt \in CompressOpts, bounding_box \in BOOLEAN, source \in BOOLEAN :
        MainStep("config",
            IF ~parses THEN Return(-1, "Invalid JSON file.")
            ELSE IF ~found
            THEN Return(-1, "Couldn't find expected details in JSON file.")
            ELSE IF ~compressIsString
            THEN Return(-1, "\"compress\" should be any of \"gzip\",\"deflate\",\"none\" in JSON file.")
            ELSE IF ~ZoomsValid(drv.baseZoom, drv.endZoom)
            THEN Return(-1, "maxzoom must be the same or smaller than basezoom.")
            ELSE IF compressOpt \notin {"gzip", "deflate", "none", ""}
            THEN Return(-1, "\"compress\" should be any of \"gzip\",\"deflate\",\"none\" in JSON file.")
            ELSE IF source /\ ~(drv.hasClippingBox \/ bounding_box)
            THEN Return(1, "Can't read shapefiles unless a bounding box is provided.")
            ELSE [drv EXCEPT !.pc = "init",
                             !.hasClippingBox = @ \/ bounding_box,
                             !.shapesRead = source])

\* Call init_function of Lua logic
InitFunction ==
    \E exists_init_function \in BOOLEAN, fails \in BOOLEAN :
        MainStep("init",
            IF exists_init_function /\ fails THEN Return(-1, "lua runtime error")
            ELSE [drv EXCEPT !.pc = "node_keys"])

\* Read significant node tags
ReadNodeKeys ==
    \E isnil \in BOOLEAN :
        MainStep("node_keys",
            IF isnil
            THEN Return(-1, "Error found in Lua script when reading node_keys")
            ELSE [drv EXCEPT !.pc = "mbtiles"])

\* Initialise mbtiles if required
InitMbtiles ==
    MainStep("mbtiles", [drv EXCEPT !.pc = "read", !.mbtilesOpen = drv.sqlite])

\* Read all PBFs: the blocks of the files that open
ReadPbfs ==
    \E opens \in BOOLEAN, blocks \in 1..2 :
        MainStep("read",
            IF ~opens THEN Return(-1, "Couldn't open .pbf file")
            ELSE [drv EXCEPT !.pc = "write", !.blocksRead = blocks])

\* Write out each tile: the loop through the zoom levels startZoom..endZoom
WriteEachTile ==
    \E written \in BOOLEAN :
        MainStep("write",
            LET zooms == {z \in 0..MaxZoomSetting : drv.startZoom <= z /\ z <= drv.endZoom}
                done == [drv EXCEPT !.tilesWritten = Cardinality(zooms)]
            IN  IF zooms # {} /\ ~drv.sqlite /\ ~written
                THEN [done EXCEPT !.pc = "returned", !.code = -1,
                                  !.printed = "Couldn't write to"]
                ELSE [done EXCEPT !.pc = "exit_function"])

\* Call exit_function of Lua logic
ExitFunction ==
    \E exists_exit_function \in BOOLEAN, fails \in BOOLEAN :
        MainStep("exit_function",
            IF exists_exit_function /\ fails THEN Return(-1, "lua runtime error")
            ELSE Return(0, "Filled the tileset with good things"))

NextMain ==
    \/ ReadOptions
    \/ ReadBoundingBox
    \/ ReadConfig
    \/ InitFunction
    \/ ReadNodeKeys
    \/ InitMbtiles
    \/ ReadPbfs
    \/ WriteEachTile
    \/ ExitFunction

\* main is sequential: it goes on until it returns
SpecMain == InitMain /\ [][NextMain]_vars /\ WF_vars(NextMain)

\* settings.maxzoom is greater than settings.basezoom
ZoomsRejected == drv.endZoom > drv.baseZoom

\* C31: with settings.maxzoom greater than settings.basezoom main returns,
\* with a value other than 0 and a line printed, and at no time has it read a
\* primitive block of an input file, read a shapefile, written a tile or
\* opened the mbtiles container.
C31_ZoomRejectedEarly ==
    /\ [](ZoomsRejected =>
            /\ drv.blocksRead = 0
            /\ ~drv.shapesRead
            /\ drv.tilesWritten = 0
            /\ ~drv.mbtilesOpen
            /\ drv.pc \in {"options", "bbox", "config", "returned"}
            /\ (drv.pc = "returned" => drv.code # 0 /\ drv.printed # ""))
    /\ (ZoomsRejected ~> drv.pc = "returned")

\* main has returned at the check of the zoom settings, after the header of
\* the first input file was read
C31_Witness ==
    /\ ZoomsRejected
    /\ drv.pc = "returned"
    /\ drv.headerRead
    /\ drv.code = -1
    /\ drv.printed = "maxzoom must be the same or smaller than basezoom."

(***************************************************************************)
(* SpecLoop: the read loop on one input file, which may have no ways       *)
(* block.  wayPosition is then still -1 at the first end of file, and      *)
(* infile.seekg(-1) fails: the stream gets failbit and no position, which  *)
(* drv.pos = -1 stands for.  eofbit is set by a read that meets the end of *)
(* the file only, and a stream with failbit reads nothing, so infile.eof() *)
(* is false after every later readBlock.  readBlock itself is not under    *)
(* src/: with a failed stream it leaves pb as it was, or leaves it without *)
(* groups, or ends the process.                                            *)
(***************************************************************************)
\* a file without ways: a dense group, and a block with a group of another kind
NoWaysFile ==
    << <<DenseGroup(<<6>>, {})>>,
       <<OtherGroup>> >>

LoopPool == FilePool \cup {NoWaysFile}

InitLoop ==
    /\ inputFiles \in {<<f>> : f \in LoopPool}
    /\ nodes = EmptyStore
    /\ ways = EmptyStore
    /\ relations = EmptyStore
    /\ hist = NoHist
    /\ sink = <<>>
    /\ call = NoCall
    /\ mpc = NoMpc
    /\ asm = NoAsm
    /\ drv = DrvStart(1)
    /\ wayRelations = <<>>
    /\ relationOutputObjects = <<>>
    /\ tileIndex = <<>>
    /\ log = <<>>

\* readBlock on the stream that seekg(-1) left with failbit: infile.eof() is
\* false afterwards and the loop body runs on whatever pb holds.
\* drv.blockStart goes on naming the block pb holds.
ReadBlockFailed ==
    /\ drv.pc = "read"
    /\ drv.pos < 1
    /\ \E pb \in {"same", "empty", "abort"} :
          drv' = CASE pb = "same" -> [drv EXCEPT !.pc = "group", !.i = 1]
                   [] pb = "empty" -> drv
                   [] OTHER -> [drv EXCEPT !.pc = "aborted"]
    /\ UNCHANGED <<nodes, ways, relations, wayRelations, relationOutputObjects,
                   tileIndex, log, otherVars>>

NextLoop ==
    \/ OpenFile
    \/ ReadBlock
    \/ ReadBlockFailed
    \/ EofCheckedRelations
    \/ EofProcessedRelations
    \/ EofBreak
    \/ GroupDense
    \/ GroupSkipWays
    \/ GroupRememberWays
    \/ GroupNothingToCheck
    \/ GroupInsertWays
    \/ GroupReadRelations
    \/ GroupNothingToProcess
    \/ GroupReadWays
    \/ EndOfBlock

\* the loop is sequential code: it goes on as long as it can
SpecLoop == InitLoop /\ [][NextLoop]_vars /\ WF_vars(NextLoop)

\* the blocks of a file that hold a ways group
WaysBlocks(file) ==
    {b \in 1..Len(file) : \E g \in 1..Len(file[b]) : file[b][g].kind = "ways"}

\* a step that sets the rewind offset sets it in the first pass, once, to the
\* start of the first block of the file that holds ways
OffsetFixed ==
    drv'.wayPosition # drv.wayPosition =>
        /\ drv.wayPosition = -1
        /\ ~drv.checkedRelations
        /\ drv'.wayPosition \in WaysBlocks(inputFiles[drv.file])
        /\ \A b \in WaysBlocks(inputFiles[drv.file]) : drv'.wayPosition <= b

\* a step at the end of the file rewinds the stream to the offset at the
\* first and at the second end of file and leaves the loop at the third,
\* and no other step moves the stream backwards
RewoundTwice ==
    /\ (AtEof /\ drv' # drv) =>
          IF drv.checkedRelations /\ drv.processedRelations
          THEN drv'.pc = "tiles"
          ELSE /\ drv'.pc = "read"
               /\ drv'.pos = drv.wayPosition
               /\ drv'.pos \in WaysBlocks(inputFiles[drv.file])
               /\ drv'.checkedRelations
               /\ drv'.processedRelations = drv.checkedRelations
    /\ drv'.pos < drv.pos => AtEof

\* C33: for every input file the rewind offset is set once, in the first
\* pass, to the start of the first ways block, the stream is rewound to it
\* at the first and at the second end of file, the loop is left at the third
\* end of file, and the loop is left in the end.
C33_LoopTerminates ==
    /\ [][OffsetFixed /\ RewoundTwice]_vars
    /\ <>(drv.pc = "tiles")

(***************************************************************************)
(* SpecBag: correctMultiPolygonRelation on the bags of SpecWalk and on     *)
(* outer bags that name a way more than once (a relation may list a way    *)
(* twice); both bags run through the same loop body.                       *)
(***************************************************************************)
InitBag ==
    /\ nodes = WalkNodes
    /\ ways = WalkWays
    /\ relations = EmptyStore
    /\ hist = NoHist
    /\ sink = <<>>
    /\ call = NoCall
    /\ mpc = NoMpc
    /\ DriverIdle
    /\ \E outerWayVec \in SeqsUpTo(WalkOuterPool, MaxOuterWays),
          innerWayVec \in Bags(WalkInnerPool, MaxInnerWays) :
           asm = [pc |-> "call", outerWayVec |-> outerWayVec, innerWayVec |-> innerWayVec]

SpecBag == InitBag /\ [][NextAsm]_vars

\* how often the walks of a bag took entry i of the bag
TimesTaken(walks, i) ==
    Cardinality({kn \in {<<k, n>> : k \in 1..Len(walks), n \in 1..MaxOuterWays + MaxInnerWays} :
                    /\ kn[2] <= Len(walks[kn[1]].steps)
                    /\ walks[kn[1]].steps[kn[2]].idx = i})

\* the walks of one bag end in time and take every entry once
WalksOfBag(wayVec, walks) ==
    /\ \A k \in 1..Len(walks) :
          LET steps == walks[k].steps
          IN  /\ Len(steps) >= 1
              /\ Len(steps) <= Cardinality(Unconsumed(steps[1])) + 1
              /\ \A n \in 1..Len(steps) - 1 :
                    /\ steps[n + 1].idx \in Unconsumed(steps[n])
                    /\ Unconsumed(steps[n + 1]) = Unconsumed(steps[n]) \ {steps[n + 1].idx}
    /\ \A i \in 1..Len(wayVec) :
          TimesTaken(walks, i) = IF AsmSkipped(wayVec, i) THEN 0 ELSE 1

\* C34: every ring walk has ended after at most as many rounds as there
\* were ways not yet used when it began (each round takes one of them), and
\* every entry of a bag whose way is in the WayStore with a node list that
\* is not empty is taken by exactly one round of exactly one walk, every
\* other entry by none.
C34_WalkTerminates ==
    asm.pc = "done" =>
        /\ WalksOfBag(asm.outerWayVec, asm.out.outerWalks)
        /\ WalksOfBag(asm.innerWayVec, asm.out.innerWalks)

\* way 11 is named twice and way 18 is not in the WayStore: the first walk
\* takes the first entry and then the third, backwards
C34_Witness ==
    /\ asm.pc = "done"
    /\ asm.outerWayVec = <<11, 18, 11>>
    /\ Len(asm.out.outerWalks) = 1
    /\ Len(asm.out.outerWalks[1].steps) = 2
    /\ asm.out.outerWalks[1].steps[2].idx = 3
    /\ asm.out.outerWalks[1].steps[2].reversed

(***************************************************************************)
(* The sorted-array containers of src/src/indexed_array.cpp.               *)
(* A KeyValArrays is [keys, values], an IndexedKeyValArrays is             *)
(* [keys, indexes, values]; indexes holds offsets into values, counted     *)
(* from 0 as in the code.  A member function that can raise returns        *)
(* [raised, c, v]: whether it raised std::out_of_range, the container      *)
(* after the call and the value returned.                                  *)
(***************************************************************************)
\* std::lower_bound(keys.cbegin(), keys.cend(), k): the bisection, from the
\* position first over len elements; the result is a position in 1..Len+1
RECURSIVE Bisect(_, _, _, _)
Bisect(keys, k, first, len) ==
    IF len = 0 THEN first
    ELSE LET half == len \div 2
             middle == first + half
         IN  IF keys[middle] < k
             THEN Bisect(keys, k, middle + 1, len - half - 1)
             ELSE Bisect(keys, k, first, half)

lower_bound(keys, k) == Bisect(keys, k, 1, Len(keys))

\* std::binary_search, found by argument-dependent lookup
binary_search(keys, k) ==
    LET keyIt == lower_bound(keys, k)
    IN  keyIt # Len(keys) + 1 /\ ~(k < keys[keyIt])

\* KeyValArrays<KeyT, ValT>(): both vectors empty
KeyValArrays == [keys |-> <<>>, values |-> <<>>]

KeyValArrays_at(c, k) ==
    LET keyIt == lower_bound(c.keys, k)
    IN  IF keyIt = Len(c.keys) + 1
        THEN [raised |-> TRUE, c |-> c, v |-> <<>>]
        ELSE IF c.keys[keyIt] # k
        THEN [raised |-> TRUE, c |-> c, v |-> <<>>]
        ELSE [raised |-> FALSE, c |-> c, v |-> c.values[keyIt]]

\* the bool of binary_search converted to size_t
KeyValArrays_count(c, k) == IF binary_search(c.keys, k) THEN 1 ELSE 0

\* an insert_back that turns away smaller keys only
KeyValArrays_insert_back_orEqual(c, k, v) ==
    IF Len(c.keys) > 0 /\ k < c.keys[Len(c.keys)]
    THEN [raised |-> TRUE, c |-> c, v |-> <<>>]
    ELSE [raised |-> FALSE,
          c |-> [keys |-> Append(c.keys, k), values |-> Append(c.values, v)],
          v |-> <<>>]

KeyValArrays_insert_back(c, k, v) ==
    IF Len(c.keys) > 0 /\ k <= c.keys[Len(c.keys)]
    THEN [raised |-> TRUE, c |-> c, v |-> <<>>]
    ELSE [raised |-> FALSE,
          c |-> [keys |-> Append(c.keys, k), values |-> Append(c.values, v)],
          v |-> <<>>]

KeyValArrays_clear(c) == KeyValArrays

\* IndexedKeyValArrays() : indexes({0})
IndexedKeyValArrays == [keys |-> <<>>, indexes |-> <<0>>, values |-> <<>>]

\* an at that hands out the values from the key's offset to the end
IndexedKeyValArrays_at_toEnd(c, k) ==
    LET keyIt == lower_bound(c.keys, k)
    IN  IF keyIt = Len(c.keys) + 1
        THEN [raised |-> TRUE, c |-> c, v |-> <<>>]
        ELSE IF c.keys[keyIt] # k
        THEN [raised |-> TRUE, c |-> c, v |-> <<>>]
        ELSE [raised |-> FALSE, c |-> c,
              v |-> SubSeq(c.values, c.indexes[keyIt] + 1, Len(c.values))]

\* rank = keyIt - keys.cbegin() is keyIt - 1, indexes[rank] is the model's
\* indexes[keyIt]; the pair {beginIt, endIt} is the values between the two
IndexedKeyValArrays_at(c, k) ==
    LET keyIt == lower_bound(c.keys, k)
    IN  IF keyIt = Len(c.keys) + 1
        THEN [raised |-> TRUE, c |-> c, v |-> <<>>]
        ELSE IF c.keys[keyIt] # k
        THEN [raised |-> TRUE, c |-> c, v |-> <<>>]
        ELSE [raised |-> FALSE, c |-> c,
              v |-> SubSeq(c.values, c.indexes[keyIt] + 1, c.indexes[keyIt + 1])]

IndexedKeyValArrays_count(c, k) == IF binary_search(c.keys, k) THEN 1 ELSE 0

IndexedKeyValArrays_insert_back(c, k, vs) ==
    IF Len(c.keys) > 0 /\ k <= c.keys[Len(c.keys)]
    THEN [raised |-> TRUE, c |-> c, v |-> <<>>]
    ELSE [raised |-> FALSE,
          c |-> [keys |-> Append(c.keys, k),
                 indexes |-> Append(c.indexes, Len(c.values \o vs)),
                 values |-> c.values \o vs],
          v |-> <<>>]

IndexedKeyValArrays_clear(c) == IndexedKeyValArrays

(***************************************************************************)
(* SpecArrays: any sequence of insert_back, at, count and clear on one     *)
(* container of either class.  drv holds the container c, and beside it    *)
(* what was inserted since the last clear: the key of the last insert_back *)
(* that did not raise (0 when there was none) and the value each key was   *)
(* inserted with.  hist holds the last call, the container and the last    *)
(* key before it, and what the call returned.                              *)
(***************************************************************************)
\* the keys are 1..MaxKey
MaxKey == 3

ArrayKeys == 1..MaxKey

\* the values of a KeyValArrays, and the value vectors of an IndexedKeyValArrays
ArrayValues(class) ==
    IF class = "KeyValArrays" THEN {<<7>>, <<8>>}
    ELSE {<<>>, <<7>>, <<7, 8>>}

InitArrays ==
    /\ nodes = EmptyStore
    /\ ways = EmptyStore
    /\ relations = EmptyStore
    /\ hist = NoHist
    /\ sink = <<>>
    /\ call = NoCall
    /\ mpc = NoMpc
    /\ asm = NoAsm
    /\ inputFiles = <<>>
    /\ \E class \in {"KeyValArrays", "IndexedKeyValArrays"} :
          drv = [pc |-> "arrays", class |-> class,
                 c |-> IF class = "KeyValArrays" THEN KeyValArrays
                       ELSE IndexedKeyValArrays,
                 lastKey |-> 0, inserted |-> <<>>]
    /\ wayRelations = EmptyStore
    /\ relationOutputObjects = EmptyStore
    /\ tileIndex = EmptyStore
    /\ log = <<>>

\* a call of op with key k and value v that returned r
Called(op, k, v, r) ==
    /\ hist' = [store |-> drv.class, op |-> op, k |-> k, v |-> v, pre |-> drv.c,
                lastKey |-> drv.lastKey, raised |-> r.raised, result |-> r.v]
    /\ UNCHANGED <<nodes, ways, relations, sink, call, mpc, asm, inputFiles,
                   wayRelations, relationOutputObjects, tileIndex, log>>

ArraysInsertBack ==
    \E k \in ArrayKeys, v \in ArrayValues(drv.class) :
        LET r == IF drv.class = "KeyValArrays"
                 THEN KeyValArrays_insert_back(drv.c, k, v)
                 ELSE IndexedKeyValArrays_insert_back(drv.c, k, v)
        IN  /\ drv.pc = "arrays"
            /\ drv' = IF r.raised THEN [drv EXCEPT !.c = r.c]
                      ELSE [drv EXCEPT !.c = r.c, !.lastKey = k,
                                       !.inserted = (k :> v) @@ @]
            /\ Called("insert_back", k, v, r)

ArraysAt ==
    \E k \in ArrayKeys :
        LET r == IF drv.class = "KeyValArrays" THEN KeyValArrays_at(drv.c, k)
                 ELSE IndexedKeyValArrays_at(drv.c, k)
        IN  /\ drv.pc = "arrays"
            /\ drv' = [drv EXCEPT !.c = r.c]
            /\ Called("at", k, <<>>, r)

ArraysCount ==
    \E k \in ArrayKeys :
        LET n == IF drv.class = "KeyValArrays" THEN KeyValArrays_count(drv.c, k)
                 ELSE IndexedKeyValArrays_count(drv.c, k)
        IN  /\ drv.pc = "arrays"
            /\ UNCHANGED drv
            /\ Called("count", k, <<>>, [raised |-> FALSE, v |-> n])

ArraysClear ==
    /\ drv.pc = "arrays"
    /\ drv' = [drv EXCEPT !.c = IF drv.class = "KeyValArrays" THEN KeyValArrays_clear(@)
                                ELSE IndexedKeyValArrays_clear(@),
                          !.lastKey = 0, !.inserted = <<>>]
    /\ Called("clear", 0, <<>>, [raised |-> FALSE, v |-> <<>>])

NextArrays ==
    \/ ArraysInsertBack
    \/ ArraysAt
    \/ ArraysCount
    \/ ArraysClear

SpecArrays == InitArrays /\ [][NextArrays]_vars

StrictlyIncreasing(keys) == \A i \in 1..Len(keys) - 1 : keys[i] < keys[i + 1]

\* C35: in both containers insert_back(k, ...) raises exactly when a key was
\* inserted since the last clear and k is less than or equal to the last of
\* them, a call that raised has left the container as it was, the keys are
\* strictly increasing in every state, and clear leaves the container as it
\* is constructed.
C35_InsertBackOrdered ==
    /\ StrictlyIncreasing(drv.c.keys)
    /\ hist.op = "insert_back" =>
          /\ hist.raised <=> (hist.lastKey # 0 /\ hist.k <= hist.lastKey)
          /\ hist.raised => drv.c = hist.pre
          /\ ~hist.raised => drv.c.keys = Append(hist.pre.keys, hist.k)
    /\ hist.op = "clear" =>
          drv.c = IF drv.class = "KeyValArrays"
                  THEN [keys |-> <<>>, values |-> <<>>]
                  ELSE [keys |-> <<>>, indexes |-> <<0>>, values |-> <<>>]

\* insert_back with the key that is already the last one has raised, on an
\* IndexedKeyValArrays that holds two keys
C35_Witness ==
    /\ drv.class = "IndexedKeyValArrays"
    /\ hist.op = "insert_back"
    /\ hist.raised
    /\ Len(drv.c.keys) = 2
    /\ hist.k = drv.c.keys[2]
    /\ drv.c.indexes = <<0, 2, 2>>

\* C36: in every state of an IndexedKeyValArrays indexes has one entry more
\* than keys, begins with 0, never decreases and ends with the number of
\* values; at(k) returns the values that k was inserted with since the last
\* clear, none when it was inserted with none, and raises when k was not
\* inserted since then; in both containers count(k) is 1 when k was inserted
\* since the last clear and 0 otherwise.
C36_IndexesAndLookup ==
    /\ drv.class = "IndexedKeyValArrays" =>
          LET indexes == drv.c.indexes
          IN  /\ Len(indexes) = Len(drv.c.keys) + 1
              /\ indexes[1] = 0
              /\ \A i \in 1..Len(indexes) - 1 : indexes[i] <= indexes[i + 1]
              /\ indexes[Len(indexes)] = Len(drv.c.values)
              /\ hist.op = "at" =>
                    IF hist.k \in DOMAIN drv.inserted
                    THEN ~hist.raised /\ hist.result = drv.inserted[hist.k]
                    ELSE hist.raised
    /\ hist.op = "count" =>
          hist.result = IF hist.k \in DOMAIN drv.inserted THEN 1 ELSE 0

\* at has returned no values for the second of three keys, which was
\* inserted with none between two keys with values
C36_Witness ==
    /\ drv.class = "IndexedKeyValArrays"
    /\ hist.op = "at"
    /\ ~hist.raised
    /\ hist.result = <<>>
    /\ Len(drv.c.keys) = 3
    /\ hist.k = drv.c.keys[2]
    /\ drv.c.indexes = <<0, 2, 2, 3>>

=============================================================================
